---- MODULE Spec2Model ----
(***************************************************************************)
(* A model of xbrl-go (pkg/xbrl): the streaming instance parser, the       *)
(* taxonomy parser, the namespace stack they share and the typed value     *)
(* accessors.                                                              *)
(*                                                                         *)
(* Representation.  Names, URIs and ids are TLA+ strings.  Every value the *)
(* code processes character by character (element text, attribute values, *)
(* fact values) is a sequence of pieces in which every character the code  *)
(* inspects (white space, ':', signs, digits, letters it folds) is a piece *)
(* of its own, so that TrimSpace, prefixOf, localOf and the lexers are     *)
(* computed, not assumed.  Str turns such a sequence into the string it    *)
(* spells.                                                                 *)
(*                                                                         *)
(* A pointer that may be nil is a sequence of length 0 (nil) or 1.         *)
(* An error is the sequence of the segments of its message, outermost      *)
(* wrapper first; <<>> is "no error".                                      *)
(***************************************************************************)
EXTENDS Integers, Sequences, FiniteSets, TLC

VARIABLES
    input,      \* Parse / ParseTaxonomy: the token stream the decoder yields
    pos,        \* index of the next token the decoder will deliver
    nsStack,    \* namespaceStack.stack
    stack,      \* call stack of the parser: one frame per active function
    doc,        \* Parse: the Document under construction
    result,     \* what the entry point returned, once it has returned
    failAt,     \* number of tokens delivered before the stream failed, -1 if it did not
    resolved,   \* history: every lexical name resolved, with the element it stands in
    query,      \* the last call made on a finished model, with what it returned
    filters,    \* the FactFilter objects allocated so far, by address
    calls,      \* history: the builder calls made on each FactFilter, in order
    load,       \* LoadTaxonomyFromSchemaRefs: the call in progress
    threads     \* the callers reading a built Document: each one's call in progress

vars ==
    <<input, pos, nsStack, stack, doc, result, failAt, resolved, query, filters, calls,
      load, threads>>

-----------------------------------------------------------------------------
(* Bounds of the model *)

MaxItems == 2

-----------------------------------------------------------------------------
(* Strings as character sequences *)

RECURSIVE Str(_)
Str(s) == IF s = <<>> THEN "" ELSE Head(s) \o Str(Tail(s))

Range(s) == {s[i] : i \in DOMAIN s}

SpaceChars == {" ", "\t", "\n", "\r"}

RECURSIVE TrimLeft(_)
TrimLeft(s) ==
    IF s # <<>> /\ Head(s) \in SpaceChars THEN TrimLeft(Tail(s)) ELSE s

RECURSIVE TrimRight(_)
TrimRight(s) ==
    IF s # <<>> /\ s[Len(s)] \in SpaceChars
    THEN TrimRight(SubSeq(s, 1, Len(s) - 1))
    ELSE s

TrimSpace(s) == TrimRight(TrimLeft(s))

\* strings.IndexByte(s, c): 0-based index of the first c, -1 when there is none
IndexByte(s, c) ==
    IF \E i \in DOMAIN s : s[i] = c
    THEN (CHOOSE i \in DOMAIN s : s[i] = c /\ \A j \in 1..(i - 1) : s[j] # c) - 1
    ELSE -1

prefixOf(s) ==
    LET i == IndexByte(s, ":") IN
    IF i < 0 THEN "" ELSE Str(SubSeq(s, 1, i))

localOf(s) ==
    LET i == IndexByte(s, ":") IN
    IF i < 0 THEN Str(s) ELSE Str(SubSeq(s, i + 2, Len(s)))

-----------------------------------------------------------------------------
(* Tokens of encoding/xml *)

At(space, local, value) == [space |-> space, local |-> local, value |-> value]

St(space, local, attrs) ==
    [k |-> "S", space |-> space, local |-> local, attrs |-> attrs, text |-> <<>>]
En(local) ==
    [k |-> "E", space |-> "", local |-> local, attrs |-> <<>>, text |-> <<>>]
Tx(text) ==
    [k |-> "T", space |-> "", local |-> "", attrs |-> <<>>, text |-> text]

\* a set of token positions as a sequence in document order
InOrder(S) ==
    [i \in 1..Cardinality(S) |-> CHOOSE x \in S : Cardinality({y \in S : y < x}) = i - 1]

\* the number of elements that tokens a..b open, less those they close
Nesting(in, a, b) ==
    Cardinality({j \in a..b : in[j].k = "S"}) - Cardinality({j \in a..b : in[j].k = "E"})

\* index of the end element matching the start element at index s
MatchEnd(in, s) ==
    LET closed == {e \in s..Len(in) : Nesting(in, s, e) = 0}
    IN IF closed = {} THEN Len(in) + 1
       ELSE CHOOSE e \in closed : \A x \in closed : e <= x

\* Decoder.DecodeElement into a string: the character data directly inside
\* the element; the content of child elements is skipped
RECURSIVE TextFrom(_, _, _, _)
TextFrom(in, i, e, depth) ==
    IF i >= e THEN <<>>
    ELSE IF in[i].k = "S" THEN TextFrom(in, i + 1, e, depth + 1)
    ELSE IF in[i].k = "E" THEN TextFrom(in, i + 1, e, depth - 1)
    ELSE (IF depth = 0 THEN in[i].text ELSE <<>>) \o TextFrom(in, i + 1, e, depth)

DecodeText(in, s) == TextFrom(in, s + 1, MatchEnd(in, s), 0)

\* Decoder.DecodeElement into an ",innerxml" field: the raw markup inside
RECURSIVE InnerFrom(_, _, _)
InnerFrom(in, i, e) ==
    IF i >= e THEN <<>>
    ELSE (IF in[i].k = "S" THEN <<"<" \o in[i].local \o ">">>
          ELSE IF in[i].k = "E" THEN <<"</" \o in[i].local \o ">">>
          ELSE in[i].text) \o InnerFrom(in, i + 1, e)

DecodeInnerXML(in, s) == InnerFrom(in, s + 1, MatchEnd(in, s))

-----------------------------------------------------------------------------
(* Errors *)

NoErr == <<>>
XMLSyntaxError == <<"XML syntax error: unexpected EOF">>
Wrap(tag, err) == <<"xbrl:", tag>> \o err

-----------------------------------------------------------------------------
(* namespaceStack *)

Lookup(frame, prefix) == IF prefix \in DOMAIN frame THEN frame[prefix] ELSE ""

newNamespaceStack == << <<>> >>

RECURSIVE Declare(_, _)
Declare(top, attrs) ==
    IF attrs = <<>> THEN top
    ELSE LET a == Head(attrs)
             t == IF a.space = "xmlns"
                  THEN [p \in DOMAIN top \cup {a.local} |->
                          IF p = a.local THEN Str(a.value) ELSE top[p]]
                  ELSE IF a.local = "xmlns" /\ a.space = ""
                  THEN [p \in DOMAIN top \cup {""} |->
                          IF p = "" THEN Str(a.value) ELSE top[p]]
                  ELSE top
         IN Declare(t, Tail(attrs))

EmptyFrame == [p \in {} |-> ""]

Push(ns, se) ==
    LET top == IF Len(ns) > 0 THEN ns[Len(ns)] ELSE EmptyFrame
    IN Append(ns, Declare(top, se.attrs))

\* a Pop that drops the frame below the top one
PopBelow(ns) ==
    IF Len(ns) > 2 THEN SubSeq(ns, 1, Len(ns) - 2) \o <<ns[Len(ns)]>> ELSE ns

Pop(ns) == IF Len(ns) > 1 THEN SubSeq(ns, 1, Len(ns) - 1) ELSE ns

URIForPrefix(ns, prefix) ==
    IF Len(ns) = 0 THEN "" ELSE Lookup(ns[Len(ns)], prefix)

\* PrefixForURI ranges over a Go map: any prefix bound to uri may come first
PrefixesForURI(ns, uri) ==
    IF Len(ns) = 0 \/ uri = "" THEN {""}
    ELSE LET top == ns[Len(ns)]
             ps == {p \in DOMAIN top : top[p] = uri}
         IN IF ps = {} THEN {""} ELSE ps

-----------------------------------------------------------------------------
(* Attributes *)

hasAttr(attrs, local) == \E i \in DOMAIN attrs : attrs[i].local = local

\* `for _, a := range attrs { if a.Name.Local == local { v = a.Value } }`
AttrLast(attrs, local) ==
    IF hasAttr(attrs, local)
    THEN attrs[CHOOSE i \in DOMAIN attrs :
                  /\ attrs[i].local = local
                  /\ \A j \in DOMAIN attrs : attrs[j].local = local => j <= i].value
    ELSE <<>>

\* the same loop leaving at the first match (`break`)
AttrFirst(attrs, local) ==
    IF hasAttr(attrs, local)
    THEN attrs[CHOOSE i \in DOMAIN attrs :
                  /\ attrs[i].local = local
                  /\ \A j \in DOMAIN attrs : attrs[j].local = local => j >= i].value
    ELSE <<>>

UpperLetters == <<"A", "B", "C", "D", "E", "F", "G", "H", "I", "J", "K", "L", "M",
                  "N", "O", "P", "Q", "R", "S", "T", "U", "V", "W", "X", "Y", "Z">>
LowerLetters == <<"a", "b", "c", "d", "e", "f", "g", "h", "i", "j", "k", "l", "m",
                  "n", "o", "p", "q", "r", "s", "t", "u", "v", "w", "x", "y", "z">>

ToLowerChar(c) ==
    IF \E i \in DOMAIN UpperLetters : UpperLetters[i] = c
    THEN LowerLetters[CHOOSE i \in DOMAIN UpperLetters : UpperLetters[i] = c]
    ELSE c

ToLower(s) == [i \in DOMAIN s |-> ToLowerChar(s[i])]

EqualFold(s, t) == ToLower(s) = ToLower(t)

-----------------------------------------------------------------------------
(* The domain model *)

QName(prefix, local, uri) == [prefix |-> prefix, local |-> local, uri |-> uri]

\* a lexical QName resolved against the top frame of the namespace stack
ResolveQName(ns, lexical) ==
    QName(prefixOf(lexical), localOf(lexical), URIForPrefix(ns, prefixOf(lexical)))

EmptyPeriod ==
    [instant |-> <<>>, startDate |-> <<>>, endDate |-> <<>>, forever |-> FALSE]

\* (p Period) IsInstant and IsForever
IsInstant(p) == p.instant # <<>> /\ p.startDate = <<>> /\ p.endDate = <<>> /\ ~p.forever

IsForever(p) == p.forever

EmptyEntity == [identifier |-> [scheme |-> "", value |-> ""]]

NewContext(se) ==
    [id |-> Str(AttrLast(se.attrs, "id")), entity |-> EmptyEntity,
     period |-> EmptyPeriod, dimensions |-> <<>>]

NewUnit(se) ==
    [id |-> Str(AttrLast(se.attrs, "id")), measures |-> <<>>, divide |-> FALSE,
     numerator |-> <<>>, denominator |-> <<>>]

EmptyMap == [x \in {} |-> <<>>]

\* a map that keeps the first value stored under a key
MapPutKeepFirst(m, k, v) == [x \in DOMAIN m \cup {k} |-> IF x \in DOMAIN m THEN m[x] ELSE v]

\* m[k] = v on a Go map
MapPut(m, k, v) == [x \in DOMAIN m \cup {k} |-> IF x = k THEN v ELSE m[x]]

NewDocument ==
    [schemaRefs |-> <<>>, contexts |-> EmptyMap, units |-> EmptyMap,
     facts |-> <<>>, taxonomy |-> <<>>]

\* the letters strings.EqualFold identifies with c
FoldClass(c) ==
    {d \in Range(UpperLetters) \cup Range(LowerLetters) : ToLowerChar(d) = ToLowerChar(c)}

\* the names that strings.EqualFold identifies with "xbrl"
XbrlSpellings ==
    {Str(<<a, b, c, d>>) : a \in FoldClass("x"), b \in FoldClass("b"),
                           c \in FoldClass("r"), d \in FoldClass("l")}

isXbrlRoot(se) == se.local \in XbrlSpellings

isSchemaRef(se) == se.local = "schemaRef"

parseSchemaRef(se) == [href |-> Str(AttrFirst(se.attrs, "href"))]

XSI == "http://www.w3.org/2001/XMLSchema-instance"

\* the attribute loop of parseItemFact
FactFromAttrs(se, prefix) ==
    [kind |-> "item",
     name |-> QName(prefix, se.local, se.space),
     value |-> <<>>,
     contextRef |-> Str(AttrLast(se.attrs, "contextRef")),
     unitRef |-> Str(AttrLast(se.attrs, "unitRef")),
     decimals |-> Str(AttrLast(se.attrs, "decimals")),
     precision |-> Str(AttrLast(se.attrs, "precision")),
     id |-> Str(AttrLast(se.attrs, "id")),
     lang |-> Str(AttrLast(se.attrs, "lang")),
     nil |-> \E i \in DOMAIN se.attrs :
                /\ se.attrs[i].space = XSI
                /\ se.attrs[i].local = "nil"
                /\ EqualFold(se.attrs[i].value, <<"t", "r", "u", "e">>)]

\* parseItemFact once DecodeElement has succeeded
parseItemFact(in, s, prefix) ==
    [FactFromAttrs(in[s], prefix) EXCEPT !.value = TrimSpace(DecodeText(in, s))]

\* parseExplicitMember once DecodeElement has succeeded
parseExplicitMember(in, s, ns) ==
    [dimension |-> ResolveQName(ns, TrimSpace(AttrFirst(in[s].attrs, "dimension"))),
     explicit |-> TRUE,
     member |-> ResolveQName(ns, TrimSpace(DecodeText(in, s))),
     typedValue |-> ""]

\* parseTypedMember once DecodeElement has succeeded
parseTypedMember(in, s, ns) ==
    [dimension |-> ResolveQName(ns, TrimSpace(AttrFirst(in[s].attrs, "dimension"))),
     explicit |-> FALSE,
     member |-> QName("", "", ""),
     typedValue |-> Str(TrimSpace(DecodeInnerXML(in, s)))]

\* parseMeasureElement once DecodeElement has succeeded
parseMeasureElement(in, s, ns) == ResolveQName(ns, TrimSpace(DecodeText(in, s)))


-----------------------------------------------------------------------------
(* The decoder and the call stack *)

\* no LoadTaxonomyFromSchemaRefs call is in progress
NoLoad == [at |-> "none"]

NoQuery == [op |-> "none"]

NoThreads == <<>>

Tok == input[pos]
Top == stack[Len(stack)]
Caller == stack[Len(stack) - 1]

Frame(fn, start, v) == [fn |-> fn, start |-> start, v |-> v]

Running(fn) == ~result.done /\ stack # <<>> /\ Top.fn = fn
HasTok(kind) == pos <= Len(input) /\ Tok.k = kind

\* the elements open once n tokens have been delivered, outermost first
OpenAt(in, n) ==
    InOrder({s \in 1..n : in[s].k = "S" /\ \A e \in s..n : Nesting(in, s, e) # 0})

\* Decoder.Token fails when the input ends (or breaks) with an element open;
\* with none open the end of the input is io.EOF
TokenCanFail == pos <= Len(input) /\ Nesting(input, 1, pos - 1) > 0

\* Skip and DecodeElement read up to the end element matching the start
\* element at s: they fail when the input ends anywhere before it
SubtreeFaults(in, s) == s..(MatchEnd(in, s) - 1)

NoResult == [fn |-> "", done |-> FALSE, val |-> <<>>, err |-> NoErr]

\* a return that hands out what was collected together with the error
AbortPartial(fn, partial, err) ==
    [fn |-> fn, done |-> TRUE, val |-> <<partial>>, err |-> err]

\* `return nil, err`: what was collected so far is dropped
Abort(fn, partial, err) == [fn |-> fn, done |-> TRUE, val |-> <<>>, err |-> err]

\* `return &doc, nil`, `return tax, nil`
Finish(fn, v) == [fn |-> fn, done |-> TRUE, val |-> <<v>>, err |-> NoErr]

\* what the entry point at the bottom of the stack has collected
Collected == IF stack[1].fn = "Parse" THEN doc ELSE stack[1].v.tax

\* an error return: every caller up to Parse hands the error on unchanged
Fail(err, n) ==
    /\ result' = Abort(stack[1].fn, Collected, err)
    /\ failAt' = n
    /\ stack' = <<>>
    /\ UNCHANGED <<input, pos, nsStack, doc, resolved, query, filters, calls, load, threads>>

SetTop(v) == [stack EXCEPT ![Len(stack)].v = v]
PopFrame == SubSeq(stack, 1, Len(stack) - 1)
Call(fn, se, v) == Append(stack, Frame(fn, se.local, v))

\* the callee returns val: the frame is dropped and the caller's locals become v
Return(v) == [PopFrame EXCEPT ![Len(stack) - 1].v = v]

Hist(s, q) == [at |-> s, prefix |-> q.prefix, uri |-> q.uri]

-----------------------------------------------------------------------------
(* Parse: the top-level loop *)

ParseTokenError ==
    /\ Running("Parse") /\ TokenCanFail
    /\ Fail(Wrap("decode token", XMLSyntaxError), pos - 1)

ParseEOF ==
    /\ Running("Parse") /\ pos > Len(input)
    /\ result' = Finish("Parse", doc)
    /\ stack' = <<>>
    /\ UNCHANGED <<input, pos, nsStack, doc, failAt, resolved, query,
                   filters, calls, load, threads>>

ParseRoot ==
    /\ Running("Parse") /\ HasTok("S") /\ isXbrlRoot(Tok)
    /\ nsStack' = Push(nsStack, Tok)
    /\ pos' = pos + 1
    /\ UNCHANGED <<input, stack, doc, result, failAt, resolved, query,
                   filters, calls, load, threads>>

ParseSchemaRef ==
    /\ Running("Parse") /\ HasTok("S") /\ ~isXbrlRoot(Tok) /\ isSchemaRef(Tok)
    /\ nsStack' = Push(nsStack, Tok)
    /\ doc' = [doc EXCEPT !.schemaRefs = Append(@, parseSchemaRef(Tok))]
    /\ pos' = pos + 1
    /\ UNCHANGED <<input, stack, result, failAt, resolved, query, filters, calls, load, threads>>

ParseContextStart ==
    /\ Running("Parse") /\ HasTok("S") /\ ~isXbrlRoot(Tok) /\ ~isSchemaRef(Tok)
    /\ Tok.local = "context"
    /\ nsStack' = Push(nsStack, Tok)
    /\ stack' = Call("parseContext", Tok, [ctx |-> NewContext(Tok), dims |-> <<>>])
    /\ pos' = pos + 1
    /\ UNCHANGED <<input, doc, result, failAt, resolved, query, filters, calls, load, threads>>

ParseUnitStart ==
    /\ Running("Parse") /\ HasTok("S") /\ ~isXbrlRoot(Tok) /\ ~isSchemaRef(Tok)
    /\ Tok.local = "unit"
    /\ nsStack' = Push(nsStack, Tok)
    /\ stack' = Call("parseUnit", Tok, [u |-> NewUnit(Tok)])
    /\ pos' = pos + 1
    /\ UNCHANGED <<input, doc, result, failAt, resolved, query, filters, calls, load, threads>>

IsOtherElement(se) ==
    ~isXbrlRoot(se) /\ ~isSchemaRef(se) /\ se.local \notin {"context", "unit"}

\* a detection that takes any attribute for contextRef
IsItemFactAnyAttr(se) == se.attrs # <<>>

\* "item facts (simplified detection)"
IsItemFact(se) == hasAttr(se.attrs, "contextRef")

ParseFact ==
    /\ Running("Parse") /\ HasTok("S") /\ IsOtherElement(Tok)
    /\ IsItemFact(Tok)
    /\ nsStack' = Push(nsStack, Tok)
    /\ \E prefix \in PrefixesForURI(nsStack', Tok.space) :
          doc' = [doc EXCEPT !.facts = Append(@, parseItemFact(input, pos, prefix))]
    /\ pos' = MatchEnd(input, pos) + 1
    /\ UNCHANGED <<input, stack, result, failAt, resolved, query, filters, calls, load, threads>>

ParseFactError ==
    /\ Running("Parse") /\ HasTok("S") /\ IsOtherElement(Tok)
    /\ IsItemFact(Tok)
    /\ \E n \in SubtreeFaults(input, pos) :
          Fail(Wrap("parse fact " \o Tok.local, XMLSyntaxError), n)

ParseIgnoredStart ==
    /\ Running("Parse") /\ HasTok("S") /\ IsOtherElement(Tok)
    /\ ~IsItemFact(Tok)
    /\ nsStack' = Push(nsStack, Tok)
    /\ pos' = pos + 1
    /\ UNCHANGED <<input, stack, doc, result, failAt, resolved, query,
                   filters, calls, load, threads>>

ParseEnd ==
    /\ Running("Parse") /\ HasTok("E")
    /\ nsStack' = Pop(nsStack)
    /\ pos' = pos + 1
    /\ UNCHANGED <<input, stack, doc, result, failAt, resolved, query,
                   filters, calls, load, threads>>

ParseCharData ==
    /\ Running("Parse") /\ HasTok("T")
    /\ pos' = pos + 1
    /\ UNCHANGED <<input, nsStack, stack, doc, result, failAt, resolved, query,
                   filters, calls, load, threads>>

-----------------------------------------------------------------------------
(* What the sub-parser loops have in common *)

SubParsers ==
    {"parseContext", "parseEntity", "parsePeriod", "parseUnit", "parseDivide",
     "parseUnitMeasureContainer", "parseDimensionsContainer"}

InSubParser == ~result.done /\ stack # <<>> /\ Top.fn \in SubParsers

\* the child elements each loop handles itself
Recognised(fn) ==
    CASE fn = "parseContext" -> {"entity", "period", "scenario"}
      [] fn = "parseEntity" -> {"identifier", "segment"}
      [] fn = "parsePeriod" -> {"instant", "startDate", "endDate", "forever"}
      [] fn = "parseUnit" -> {"measure", "divide"}
      [] fn = "parseDivide" -> {"unitNumerator", "unitDenominator"}
      [] fn = "parseUnitMeasureContainer" -> {"measure"}
      [] fn = "parseDimensionsContainer" -> {"explicitMember", "typedMember"}

\* the text each loop wraps a failed dec.Token() in
TokenErrorTag(frame) ==
    CASE frame.fn = "parseContext" -> "parse context"
      [] frame.fn = "parseEntity" -> "parse entity"
      [] frame.fn = "parsePeriod" -> "parse period"
      [] frame.fn = "parseUnit" -> "parse unit"
      [] frame.fn = "parseDivide" -> "parse divide"
      [] frame.fn = "parseUnitMeasureContainer" -> "parse unit measure container"
      [] frame.fn = "parseDimensionsContainer" ->
            "parse dimensions (" \o frame.start \o ")"

\* `tok, err := dec.Token(); if err != nil { return nil, fmt.Errorf(...) }`
SubTokenError ==
    /\ InSubParser /\ TokenCanFail
    /\ Fail(Wrap(TokenErrorTag(Top), XMLSyntaxError), pos - 1)

\* `default: if err := dec.Skip(); err != nil { return nil, err }`
SubSkip ==
    /\ InSubParser /\ HasTok("S") /\ Tok.local \notin Recognised(Top.fn)
    /\ pos' = MatchEnd(input, pos) + 1
    /\ UNCHANGED <<input, nsStack, stack, doc, result, failAt, resolved, query,
                   filters, calls, load, threads>>

SubSkipError ==
    /\ InSubParser /\ HasTok("S") /\ Tok.local \notin Recognised(Top.fn)
    /\ \E n \in SubtreeFaults(input, pos) : Fail(XMLSyntaxError, n)

\* character data, and an end element that is not the function's own
SubIgnore ==
    /\ InSubParser
    /\ HasTok("T") \/ (HasTok("E") /\ Tok.local # Top.start)
    /\ pos' = pos + 1
    /\ UNCHANGED <<input, nsStack, stack, doc, result, failAt, resolved, query,
                   filters, calls, load, threads>>

IsOwnEnd(fn) == Running(fn) /\ HasTok("E") /\ Tok.local = Top.start
IsChild(fn, locals) == Running(fn) /\ HasTok("S") /\ Tok.local \in locals

-----------------------------------------------------------------------------
(* parseContext *)

CtxEntity ==
    /\ IsChild("parseContext", {"entity"})
    /\ stack' = Call("parseEntity", Tok, [ent |-> EmptyEntity, dims |-> <<>>])
    /\ pos' = pos + 1
    /\ UNCHANGED <<input, nsStack, doc, result, failAt, resolved, query,
                   filters, calls, load, threads>>

CtxPeriod ==
    /\ IsChild("parseContext", {"period"})
    /\ stack' = Call("parsePeriod", Tok, [p |-> EmptyPeriod])
    /\ pos' = pos + 1
    /\ UNCHANGED <<input, nsStack, doc, result, failAt, resolved, query,
                   filters, calls, load, threads>>

CtxScenario ==
    /\ IsChild("parseContext", {"scenario"})
    /\ stack' = Call("parseDimensionsContainer", Tok, [dims |-> <<>>])
    /\ pos' = pos + 1
    /\ UNCHANGED <<input, nsStack, doc, result, failAt, resolved, query,
                   filters, calls, load, threads>>

\* the context is complete: Parse stores it under its id
CtxEnd ==
    /\ IsOwnEnd("parseContext")
    /\ LET ctx == [Top.v.ctx EXCEPT !.dimensions = Top.v.dims] IN
       doc' = [doc EXCEPT !.contexts = MapPut(@, ctx.id, ctx)]
    /\ stack' = PopFrame
    /\ pos' = pos + 1
    /\ UNCHANGED <<input, nsStack, result, failAt, resolved, query,
                   filters, calls, load, threads>>

-----------------------------------------------------------------------------
(* parseEntity *)

EntIdentifier ==
    /\ IsChild("parseEntity", {"identifier"})
    /\ stack' = SetTop([Top.v EXCEPT !.ent.identifier =
                          [scheme |-> Str(AttrLast(Tok.attrs, "scheme")),
                           value |-> Str(TrimSpace(DecodeText(input, pos)))]])
    /\ pos' = MatchEnd(input, pos) + 1
    /\ UNCHANGED <<input, nsStack, doc, result, failAt, resolved, query,
                   filters, calls, load, threads>>

EntIdentifierError ==
    /\ IsChild("parseEntity", {"identifier"})
    /\ \E n \in SubtreeFaults(input, pos) :
          Fail(Wrap("parse identifier", XMLSyntaxError), n)

EntSegment ==
    /\ IsChild("parseEntity", {"segment"})
    /\ stack' = Call("parseDimensionsContainer", Tok, [dims |-> <<>>])
    /\ pos' = pos + 1
    /\ UNCHANGED <<input, nsStack, doc, result, failAt, resolved, query,
                   filters, calls, load, threads>>

EntEnd ==
    /\ IsOwnEnd("parseEntity")
    /\ stack' = Return([Caller.v EXCEPT !.ctx.entity = Top.v.ent,
                                        !.dims = @ \o Top.v.dims])
    /\ pos' = pos + 1
    /\ UNCHANGED <<input, nsStack, doc, result, failAt, resolved, query,
                   filters, calls, load, threads>>

-----------------------------------------------------------------------------
(* parsePeriod *)

PerDate ==
    /\ IsChild("parsePeriod", {"instant", "startDate", "endDate"})
    /\ LET v == << Str(TrimSpace(DecodeText(input, pos))) >> IN
       stack' = SetTop([Top.v EXCEPT !.p[Tok.local] = v])
    /\ pos' = MatchEnd(input, pos) + 1
    /\ UNCHANGED <<input, nsStack, doc, result, failAt, resolved, query,
                   filters, calls, load, threads>>

PerDateError ==
    /\ IsChild("parsePeriod", {"instant", "startDate", "endDate"})
    /\ \E n \in SubtreeFaults(input, pos) : Fail(XMLSyntaxError, n)

PerForever ==
    /\ IsChild("parsePeriod", {"forever"})
    /\ stack' = SetTop([Top.v EXCEPT !.p.forever = TRUE])
    /\ pos' = MatchEnd(input, pos) + 1
    /\ UNCHANGED <<input, nsStack, doc, result, failAt, resolved, query,
                   filters, calls, load, threads>>

PerForeverError ==
    /\ IsChild("parsePeriod", {"forever"})
    /\ \E n \in SubtreeFaults(input, pos) : Fail(XMLSyntaxError, n)

PerEnd ==
    /\ IsOwnEnd("parsePeriod")
    /\ stack' = Return([Caller.v EXCEPT !.ctx.period = Top.v.p])
    /\ pos' = pos + 1
    /\ UNCHANGED <<input, nsStack, doc, result, failAt, resolved, query,
                   filters, calls, load, threads>>

-----------------------------------------------------------------------------
(* parseUnit, parseDivide, parseUnitMeasureContainer *)

UnitMeasure ==
    /\ IsChild("parseUnit", {"measure"})
    /\ LET q == parseMeasureElement(input, pos, nsStack) IN
       /\ stack' = SetTop([Top.v EXCEPT !.u.measures = Append(@, q)])
       /\ resolved' = resolved \cup {Hist(pos, q)}
    /\ pos' = MatchEnd(input, pos) + 1
    /\ UNCHANGED <<input, nsStack, doc, result, failAt, query, filters, calls, load, threads>>

UnitMeasureError ==
    /\ IsChild("parseUnit", {"measure"})
    /\ \E n \in SubtreeFaults(input, pos) : Fail(XMLSyntaxError, n)

UnitDivide ==
    /\ IsChild("parseUnit", {"divide"})
    /\ stack' = Call("parseDivide", Tok, [num |-> <<>>, den |-> <<>>])
    /\ pos' = pos + 1
    /\ UNCHANGED <<input, nsStack, doc, result, failAt, resolved, query,
                   filters, calls, load, threads>>

\* the unit is complete: Parse stores it under its id
UnitEnd ==
    /\ IsOwnEnd("parseUnit")
    /\ doc' = [doc EXCEPT !.units = MapPut(@, Top.v.u.id, Top.v.u)]
    /\ stack' = PopFrame
    /\ pos' = pos + 1
    /\ UNCHANGED <<input, nsStack, result, failAt, resolved, query,
                   filters, calls, load, threads>>

DivContainer ==
    /\ IsChild("parseDivide", {"unitNumerator", "unitDenominator"})
    /\ stack' = Call("parseUnitMeasureContainer", Tok, [measures |-> <<>>])
    /\ pos' = pos + 1
    /\ UNCHANGED <<input, nsStack, doc, result, failAt, resolved, query,
                   filters, calls, load, threads>>

DivEnd ==
    /\ IsOwnEnd("parseDivide")
    /\ stack' = Return([Caller.v EXCEPT !.u.divide = TRUE,
                                        !.u.numerator = Top.v.num,
                                        !.u.denominator = Top.v.den])
    /\ pos' = pos + 1
    /\ UNCHANGED <<input, nsStack, doc, result, failAt, resolved, query,
                   filters, calls, load, threads>>

UmcMeasure ==
    /\ IsChild("parseUnitMeasureContainer", {"measure"})
    /\ LET q == parseMeasureElement(input, pos, nsStack) IN
       /\ stack' = SetTop([Top.v EXCEPT !.measures = Append(@, q)])
       /\ resolved' = resolved \cup {Hist(pos, q)}
    /\ pos' = MatchEnd(input, pos) + 1
    /\ UNCHANGED <<input, nsStack, doc, result, failAt, query, filters, calls, load, threads>>

UmcMeasureError ==
    /\ IsChild("parseUnitMeasureContainer", {"measure"})
    /\ \E n \in SubtreeFaults(input, pos) : Fail(XMLSyntaxError, n)

UmcEnd ==
    /\ IsOwnEnd("parseUnitMeasureContainer")
    /\ stack' = Return(IF Top.start = "unitNumerator"
                       THEN [Caller.v EXCEPT !.num = Top.v.measures]
                       ELSE [Caller.v EXCEPT !.den = Top.v.measures])
    /\ pos' = pos + 1
    /\ UNCHANGED <<input, nsStack, doc, result, failAt, resolved, query,
                   filters, calls, load, threads>>

-----------------------------------------------------------------------------
(* parseDimensionsContainer *)

DimExplicit ==
    /\ IsChild("parseDimensionsContainer", {"explicitMember"})
    /\ LET d == parseExplicitMember(input, pos, nsStack) IN
       /\ stack' = SetTop([Top.v EXCEPT !.dims = Append(@, d)])
       /\ resolved' = resolved \cup {Hist(pos, d.dimension), Hist(pos, d.member)}
    /\ pos' = MatchEnd(input, pos) + 1
    /\ UNCHANGED <<input, nsStack, doc, result, failAt, query, filters, calls, load, threads>>

DimExplicitError ==
    /\ IsChild("parseDimensionsContainer", {"explicitMember"})
    /\ \E n \in SubtreeFaults(input, pos) :
          Fail(Wrap("parse explicitMember", XMLSyntaxError), n)

DimTyped ==
    /\ IsChild("parseDimensionsContainer", {"typedMember"})
    /\ LET d == parseTypedMember(input, pos, nsStack) IN
       /\ stack' = SetTop([Top.v EXCEPT !.dims = Append(@, d)])
       /\ resolved' = resolved \cup {Hist(pos, d.dimension)}
    /\ pos' = MatchEnd(input, pos) + 1
    /\ UNCHANGED <<input, nsStack, doc, result, failAt, query, filters, calls, load, threads>>

DimTypedError ==
    /\ IsChild("parseDimensionsContainer", {"typedMember"})
    /\ \E n \in SubtreeFaults(input, pos) :
          Fail(Wrap("parse typedMember", XMLSyntaxError), n)

\* a return that hands the caller the container's list in place of its own
DimEndKeepLast ==
    /\ IsOwnEnd("parseDimensionsContainer")
    /\ stack' = Return([Caller.v EXCEPT !.dims = Top.v.dims])
    /\ pos' = pos + 1
    /\ UNCHANGED <<input, nsStack, doc, result, failAt, resolved, query,
                   filters, calls, load, threads>>

\* segment returns to parseEntity, scenario to parseContext: both append
DimEnd ==
    /\ IsOwnEnd("parseDimensionsContainer")
    /\ stack' = Return([Caller.v EXCEPT !.dims = @ \o Top.v.dims])
    /\ pos' = pos + 1
    /\ UNCHANGED <<input, nsStack, doc, result, failAt, resolved, query,
                   filters, calls, load, threads>>

-----------------------------------------------------------------------------
(* Taxonomy: the Concept registry *)

\* made is false while the concepts map is nil
NewTaxonomy == [concepts |-> EmptyMap, made |-> TRUE]

NotFound == [c |-> <<>>, ok |-> FALSE]

\* (t *Taxonomy) Concept(q): the Go map is keyed by the whole QName struct
Concept(t, q) ==
    IF t = <<>> THEN NotFound
    ELSE IF q \in DOMAIN t[1].concepts
         THEN [c |-> <<t[1].concepts[q]>>, ok |-> TRUE]
         ELSE NotFound

addConcept(t, c) == [t EXCEPT !.concepts = MapPut(@, c.qname, c), !.made = TRUE]

\* a Merge that copies the entries other has and t has not
MergeKeepOwn(h, t, other) ==
    IF t = 0 \/ other = 0 THEN h
    ELSE [h EXCEPT ![t] =
            [concepts |-> [q \in DOMAIN h[t].concepts \cup DOMAIN h[other].concepts |->
                             IF q \in DOMAIN h[t].concepts THEN h[t].concepts[q]
                             ELSE h[other].concepts[q]],
             made |-> TRUE]]

\* (t *Taxonomy) Merge(other) on the taxonomies of the heap h; t and other
\* are addresses in h, 0 for nil
Merge(h, t, other) ==
    IF t = 0 \/ other = 0 THEN h
    ELSE [h EXCEPT ![t] =
            [concepts |-> [q \in DOMAIN h[t].concepts \cup DOMAIN h[other].concepts |->
                             IF q \in DOMAIN h[other].concepts THEN h[other].concepts[q]
                             ELSE h[t].concepts[q]],
             made |-> TRUE]]

\* (d *Document) ConceptOf(f)
ConceptOf(d, f) ==
    IF d = <<>> \/ f = <<>> THEN NotFound
    ELSE IF d[1].taxonomy = <<>> THEN NotFound
    ELSE Concept(d[1].taxonomy, f[1].name)

\* a lexer that also takes "yes" for true
parseBoolYes(s) ==
    ToLower(s) \in {<<"t", "r", "u", "e">>, <<"1">>, <<"y", "e", "s">>}

parseBool(s) ==
    IF s = <<>> THEN FALSE
    ELSE ToLower(s) \in {<<"t", "r", "u", "e">>, <<"1">>}

TrimmedAttr(se, local) == TrimSpace(AttrLast(se.attrs, local))

\* a substitutionGroup or type attribute: the zero QName when it is empty
OptionalQName(ns, lexical) ==
    IF lexical = <<>> THEN QName("", "", "") ELSE ResolveQName(ns, lexical)

\* conceptFromElement: nil without a name or a target namespace; prefix is
\* the one PrefixForURI(targetNS) returned
conceptFromElement(se, targetNS, ns, prefix) ==
    IF TrimmedAttr(se, "name") = <<>> \/ targetNS = "" THEN <<>>
    ELSE <<[qname |-> QName(prefix, Str(TrimmedAttr(se, "name")), targetNS),
            id |-> Str(TrimmedAttr(se, "id")),
            substitutionGroup |-> OptionalQName(ns, TrimmedAttr(se, "substitutionGroup")),
            typeName |-> OptionalQName(ns, TrimmedAttr(se, "type")),
            abstract |-> parseBool(TrimmedAttr(se, "abstract")),
            nillable |-> parseBool(TrimmedAttr(se, "nillable")),
            periodType |-> Str(TrimmedAttr(se, "periodType")),
            balance |-> Str(TrimmedAttr(se, "balance"))]>>

-----------------------------------------------------------------------------
(* ParseTaxonomy *)

TaxTokenError ==
    /\ Running("ParseTaxonomy") /\ TokenCanFail
    /\ Fail(Wrap("decode taxonomy token", XMLSyntaxError), pos - 1)

TaxEOF ==
    /\ Running("ParseTaxonomy") /\ pos > Len(input)
    /\ result' = Finish("ParseTaxonomy", Top.v.tax)
    /\ stack' = <<>>
    /\ UNCHANGED <<input, pos, nsStack, doc, failAt, resolved, query,
                   filters, calls, load, threads>>

TaxSchema ==
    /\ Running("ParseTaxonomy") /\ HasTok("S") /\ Tok.local = "schema"
    /\ nsStack' = Push(nsStack, Tok)
    /\ stack' = SetTop(IF hasAttr(Tok.attrs, "targetNamespace")
                       THEN [Top.v EXCEPT !.targetNS =
                               Str(TrimSpace(AttrFirst(Tok.attrs, "targetNamespace")))]
                       ELSE Top.v)
    /\ pos' = pos + 1
    /\ UNCHANGED <<input, doc, result, failAt, resolved, query, filters, calls, load, threads>>

\* an element declaration: the concept is added, then the subtree is skipped
TaxElement ==
    /\ Running("ParseTaxonomy") /\ HasTok("S") /\ Tok.local = "element"
    /\ nsStack' = Push(nsStack, Tok)
    /\ \E prefix \in PrefixesForURI(nsStack', Top.v.targetNS) :
          LET c == conceptFromElement(Tok, Top.v.targetNS, nsStack', prefix) IN
          stack' = SetTop(IF c # <<>>
                          THEN [Top.v EXCEPT !.tax = addConcept(@, c[1])]
                          ELSE Top.v)
    /\ pos' = MatchEnd(input, pos) + 1
    /\ UNCHANGED <<input, doc, result, failAt, resolved, query, filters, calls, load, threads>>

TaxElementError ==
    /\ Running("ParseTaxonomy") /\ HasTok("S") /\ Tok.local = "element"
    /\ \E n \in SubtreeFaults(input, pos) :
          Fail(Wrap("skip element", XMLSyntaxError), n)

TaxOtherStart ==
    /\ Running("ParseTaxonomy") /\ HasTok("S")
    /\ Tok.local \notin {"schema", "element"}
    /\ nsStack' = Push(nsStack, Tok)
    /\ pos' = pos + 1
    /\ UNCHANGED <<input, stack, doc, result, failAt, resolved, query,
                   filters, calls, load, threads>>

TaxEnd ==
    /\ Running("ParseTaxonomy") /\ HasTok("E")
    /\ nsStack' = Pop(nsStack)
    /\ pos' = pos + 1
    /\ UNCHANGED <<input, stack, doc, result, failAt, resolved, query,
                   filters, calls, load, threads>>

TaxCharData ==
    /\ Running("ParseTaxonomy") /\ HasTok("T")
    /\ pos' = pos + 1
    /\ UNCHANGED <<input, nsStack, stack, doc, result, failAt, resolved, query,
                   filters, calls, load, threads>>

-----------------------------------------------------------------------------
(* Instance documents the model parses.  The root binds prefix a; every    *)
(* document is the root around at most MaxItems of the items below.        *)

UA == <<"u", "a">>
UB == <<"u", "b">>
UC == <<"u", "c">>

RootStart == St("ux", "xbrl", <<At("xmlns", "a", UA)>>)
RootEnd == En("xbrl")

ItemSchemaRef1 ==
    <<St("ux", "schemaRef", <<At("xl", "href", <<"s", "1">>)>>), En("schemaRef")>>

\* two href attributes and a contextRef: still a schemaRef
ItemSchemaRef2 ==
    <<St("ux", "schemaRef", <<At("xl", "href", <<"s", "2">>), At("", "href", <<"s", "3">>),
                               At("", "contextRef", <<"C", "1">>)>>),
      En("schemaRef")>>

\* <context id="C1" xmlns:b="ub"> with a segment that binds c
ItemContextSegment ==
    <<St("ux", "context", <<At("", "id", <<"C", "1">>), At("xmlns", "b", UB)>>),
        St("ux", "entity", <<>>),
          St("ux", "identifier", <<At("", "scheme", <<"s", "c">>)>>),
            Tx(<<" ", "E", "1", " ">>),
          En("identifier"),
          St("ux", "segment", <<At("xmlns", "c", UC)>>),
            St("ux", "explicitMember", <<At("", "dimension", <<"c", ":", "D">>)>>),
              Tx(<<" ", "b", ":", "M", "\n">>),
            En("explicitMember"),
          En("segment"),
        En("entity"),
        St("ux", "period", <<>>),
          St("ux", "instant", <<>>), Tx(<<"d", "1">>), En("instant"),
        En("period"),
      En("context")>>

\* the same id again; the scenario stands before the entity, which has two
\* segments
ItemContextScenario ==
    <<St("ux", "context", <<At("", "id", <<"C", "1">>)>>),
        St("ux", "scenario", <<>>),
          St("ux", "typedMember", <<At("", "dimension", <<"a", ":", "T">>)>>),
            St("ua", "v", <<>>), Tx(<<"x">>), En("v"),
          En("typedMember"),
          St("ux", "explicitMember", <<At("", "dimension", <<"a", ":", "D">>)>>),
            Tx(<<"a", ":", "M">>),
          En("explicitMember"),
        En("scenario"),
        St("ux", "entity", <<>>),
          St("ux", "segment", <<>>),
            St("ux", "explicitMember", <<At("", "dimension", <<"a", ":", "D">>)>>),
              Tx(<<"a", ":", "N">>),
            En("explicitMember"),
          En("segment"),
          St("ux", "segment", <<>>),
            St("ux", "typedMember", <<At("", "dimension", <<"a", ":", "U">>)>>),
              Tx(<<"y">>),
            En("typedMember"),
          En("segment"),
        En("entity"),
        St("ux", "period", <<>>),
          St("ux", "startDate", <<>>), Tx(<<"d", "1">>), En("startDate"),
          St("ux", "endDate", <<>>), Tx(<<"d", "2">>), En("endDate"),
        En("period"),
        St("", "note", <<>>), Tx(<<"n">>), En("note"),
        Tx(<<" ">>),
      En("context")>>

\* a child that carries contextRef inside a context
ItemContextForever ==
    <<St("ux", "context", <<At("", "id", <<"C", "2">>)>>),
        St("ua", "Inside", <<At("", "contextRef", <<"C", "1">>)>>), En("Inside"),
        St("ux", "period", <<>>),
          St("ux", "forever", <<>>), En("forever"),
        En("period"),
      En("context")>>

\* prefix b is bound by no open element
ItemUnitSimple ==
    <<St("ux", "unit", <<At("", "id", <<"U", "1">>)>>),
        St("ux", "measure", <<>>), Tx(<<"b", ":", "J">>), En("measure"),
      En("unit")>>

ItemUnitDivide ==
    <<St("ux", "unit", <<At("", "id", <<"U", "1">>)>>),
        St("ux", "divide", <<At("xmlns", "c", UC)>>),
          St("ux", "unitNumerator", <<>>),
            St("ux", "measure", <<>>), Tx(<<"c", ":", "J">>), En("measure"),
          En("unitNumerator"),
          St("ux", "unitDenominator", <<>>),
            St("ux", "measure", <<At("xmlns", "b", UB)>>), Tx(<<"b", ":", "K">>),
            En("measure"),
            St("ux", "measure", <<>>), Tx(<<"a", ":", "L">>), En("measure"),
          En("unitDenominator"),
        En("divide"),
      En("unit")>>

ItemFact ==
    <<St("ua", "Rev", <<At("", "contextRef", <<"C", "1">>), At("", "unitRef", <<"U", "1">>),
                        At("", "decimals", <<"0">>)>>),
        Tx(<<" ", "4", "2", " ">>),
      En("Rev")>>

ItemFactNil ==
    <<St("ua", "Rev", <<At("", "contextRef", <<"C", "2">>),
                        At(XSI, "nil", <<"T", "R", "U", "E">>)>>),
        Tx(<<"x">>),
      En("Rev")>>

\* nil attributes that do not flag the fact: no namespace, another local name,
\* a padded value, another value; text holding characters JSON escapes; the
\* namespace of the fact is bound to prefix a and is the default namespace
ItemFactNotNil ==
    <<St("ua", "Note", <<At("", "contextRef", <<"C", "1">>), At("", "xmlns", UA),
                         At("", "nil", <<"t", "r", "u", "e">>),
                         At(XSI, "Nil", <<"t", "r", "u", "e">>),
                         At(XSI, "nil", <<" ", "t", "r", "u", "e">>),
                         At(XSI, "nil", <<"1">>)>>),
        Tx(<<" ", "a", "\"", "\\", "\n", "<", "b", " ">>),
      En("Note")>>

\* attributes, but no contextRef
ItemOther ==
    <<St("ua", "Other", <<At("", "id", <<"o", "1">>), At("", "unitRef", <<"U", "1">>)>>),
        Tx(<<"t">>),
      En("Other")>>

\* a fact below another element, itself holding an element with contextRef
ItemNested ==
    <<St("", "w", <<>>),
        St("ua", "Sub", <<At("", "contextRef", <<"C", "1">>), At("", "id", <<"F", "2">>)>>),
          St("ua", "Inner", <<At("", "contextRef", <<"C", "1">>)>>), En("Inner"),
          Tx(<<"7">>),
        En("Sub"),
      En("w")>>

ItemXbrlLike ==
    <<St("", "XBRL", <<At("", "contextRef", <<"C", "1">>)>>), En("XBRL")>>

Items ==
    <<ItemSchemaRef1, ItemSchemaRef2, ItemContextSegment, ItemContextScenario,
      ItemContextForever, ItemUnitSimple, ItemUnitDivide, ItemFact, ItemFactNil,
      ItemFactNotNil, ItemOther, ItemNested, ItemXbrlLike>>

Selections == UNION {[1..k -> DOMAIN Items] : k \in 0..MaxItems}

RECURSIVE Body(_)
Body(sel) == IF sel = <<>> THEN <<>> ELSE Items[Head(sel)] \o Body(Tail(sel))

Instance(sel) == <<RootStart>> \o Body(sel) \o <<RootEnd>>

\* one schemaRef, one instant context, one simple unit, one fact using both
MinimalInstance ==
    <<RootStart>> \o ItemSchemaRef1 \o ItemContextSegment \o ItemUnitSimple
                 \o ItemFact \o <<RootEnd>>

\* contexts as no validation excludes them: one without a period, one whose
\* period holds an instant and forever, one whose period holds a start only
LoosePeriods ==
    <<RootStart,
      St("ux", "context", <<At("", "id", <<"P", "0">>)>>), En("context"),
      St("ux", "context", <<At("", "id", <<"P", "1">>)>>),
        St("ux", "period", <<>>),
          St("ux", "instant", <<>>), Tx(<<"d", "1">>), En("instant"),
          St("ux", "forever", <<>>), En("forever"),
        En("period"),
      En("context"),
      St("ux", "context", <<At("", "id", <<"P", "2">>)>>),
        St("ux", "period", <<>>),
          St("ux", "startDate", <<>>), Tx(<<"d", "1">>), En("startDate"),
        En("period"),
      En("context"),
      RootEnd>>

Instances ==
    {<<>>, MinimalInstance, LoosePeriods} \cup {Instance(sel) : sel \in Selections}

-----------------------------------------------------------------------------
(* Taxonomy schemas the model parses: one of the roots below around at most *)
(* MaxItems of the declarations.                                            *)

nsXBRLI == "http://www.xbrl.org/2003/instance"
nsXSD == "http://www.w3.org/2001/XMLSchema"

\* targetNamespace with white space around it, bound to prefix t
SchemaRootPrefixed ==
    St(nsXSD, "schema", <<At("", "targetNamespace", <<" ", "u", "a", " ">>),
                          At("xmlns", "t", UA), At("xmlns", "x", <<nsXBRLI>>),
                          At("xmlns", "xs", <<nsXSD>>)>>)

\* the target namespace is the default namespace
SchemaRootDefault ==
    St(nsXSD, "schema", <<At("", "targetNamespace", UA), At("", "xmlns", UA),
                          At("xmlns", "x", <<nsXBRLI>>)>>)

\* two prefixes bound to the target namespace, and a second targetNamespace
SchemaRootTwoPrefixes ==
    St(nsXSD, "schema", <<At("", "targetNamespace", UA), At("xmlns", "t", UA),
                          At("xmlns", "a", UA), At("", "targetNamespace", UB)>>)

SchemaRootNoTarget ==
    St(nsXSD, "schema", <<At("xmlns", "x", <<nsXBRLI>>)>>)

SchemaRoots ==
    {SchemaRootPrefixed, SchemaRootDefault, SchemaRootTwoPrefixes, SchemaRootNoTarget}

DeclRev ==
    <<St(nsXSD, "element",
         <<At("", "name", <<" ", "R", "e", "v">>), At("", "id", <<"r", "1">>),
           At("", "type", <<"x", ":", "monetaryItemType">>),
           At("", "substitutionGroup", <<"x", ":", "item">>),
           At("", "periodType", <<"duration">>), At("", "balance", <<"credit">>),
           At("", "nillable", <<"1">>)>>),
      En("element")>>

DeclFlag ==
    <<St(nsXSD, "element",
         <<At("", "name", <<"F", "l", "a", "g">>), At("", "type", <<"boolean">>),
           At("", "abstract", <<" ", "T", "R", "U", "E">>),
           At("", "nillable", <<"y", "e", "s">>)>>),
      En("element")>>

\* no name: not a concept
DeclNoName ==
    <<St(nsXSD, "element", <<At("", "id", <<"n", "1">>)>>), En("element")>>

\* Rev declared again, with an annotation that is skipped
DeclRevAgain ==
    <<St(nsXSD, "element",
         <<At("", "name", <<"R", "e", "v">>), At("", "id", <<"r", "2">>),
           At("", "type", <<"xs", ":", "integer">>), At("xmlns", "xs", <<nsXSD>>)>>),
        St(nsXSD, "annotation", <<>>), Tx(<<"n">>), En("annotation"),
      En("element")>>

\* a declaration below a declaration is skipped with its parent
DeclNested ==
    <<St(nsXSD, "element", <<At("", "name", <<"O", "u", "t">>), At("xmlns", "o", UA)>>),
        St(nsXSD, "element", <<At("", "name", <<"I", "n">>)>>), En("element"),
      En("element")>>

\* a declaration below an element that is not a declaration
DeclGrouped ==
    <<St(nsXSD, "group", <<>>),
        Tx(<<" ">>),
        St(nsXSD, "element", <<At("", "name", <<"I", "n">>)>>), En("element"),
      En("group")>>

Decls == <<DeclRev, DeclFlag, DeclNoName, DeclRevAgain, DeclNested, DeclGrouped>>

DeclSelections == UNION {[1..k -> DOMAIN Decls] : k \in 0..MaxItems}

RECURSIVE DeclBody(_)
DeclBody(sel) == IF sel = <<>> THEN <<>> ELSE Decls[Head(sel)] \o DeclBody(Tail(sel))

Schemas ==
    {<<root>> \o DeclBody(sel) \o <<En("schema")>> :
        root \in SchemaRoots, sel \in DeclSelections}

-----------------------------------------------------------------------------
(* Concept lookups against a parsed taxonomy *)

QueryNames ==
    {QName(p, l, "ua") : p \in {"", "a", "t"}, l \in {"Rev", "Flag", "In"}}

IsTaxonomy(r) == r.done /\ r.fn = "ParseTaxonomy" /\ r.val # <<>>

\* t.Concept(q) on the returned taxonomy
LookupConcept ==
    /\ IsTaxonomy(result) /\ query = NoQuery
    /\ \E q \in QueryNames :
          query' = [op |-> "Concept", q |-> q, out |-> Concept(result.val, q)]
    /\ UNCHANGED <<input, pos, nsStack, stack, doc, result, failAt, resolved,
                   filters, calls, load, threads>>

\* doc.SetTaxonomy(t); doc.ConceptOf(f) for a fact named q
LookupConceptOf ==
    /\ IsTaxonomy(result) /\ query = NoQuery
    /\ \E q \in QueryNames :
          LET d == [NewDocument EXCEPT !.taxonomy = result.val]
              f == [FactFromAttrs(St(q.uri, q.local, <<>>), q.prefix) EXCEPT !.name = q]
          IN query' = [op |-> "ConceptOf", q |-> q, out |-> ConceptOf(<<d>>, <<f>>)]
    /\ UNCHANGED <<input, pos, nsStack, stack, doc, result, failAt, resolved,
                   filters, calls, load, threads>>

-----------------------------------------------------------------------------
(* JSON export of the facts of a parsed document *)

\* QName.String, as the pieces it concatenates
String(q) ==
    IF q.uri = ""
    THEN IF q.prefix = "" THEN <<q.local>> ELSE <<q.prefix, ":", q.local>>
    ELSE <<"{", q.uri, "}", q.local>>

FactJSON(name, value, context, unit, nil) ==
    [Name |-> name, Value |-> value, ContextRef |-> context, UnitRef |-> unit, Nil |-> nil]

\* the export with the raw text of a nil fact left in place
FactsAsJSONDTOsRaw(d) ==
    IF d = <<>> THEN <<>>
    ELSE [i \in DOMAIN d[1].facts |->
            LET f == d[1].facts[i]
            IN FactJSON(String(f.name), f.value, f.contextRef, f.unitRef, f.nil)]

FactsAsJSONDTOs(d) ==
    IF d = <<>> THEN <<>>
    ELSE [i \in DOMAIN d[1].facts |->
            LET f == d[1].facts[i]
                value == IF f.nil THEN <<>> ELSE f.value
            IN FactJSON(String(f.name), value, f.contextRef, f.unitRef, f.nil)]

\* one character of a JSON string as encoding/json writes it with
\* SetEscapeHTML(false): quote, backslash and control characters are escaped,
\* < > & are written as they are
escapeChar(c) ==
    CASE c = "\"" -> <<"\\", "\"">>
      [] c = "\\" -> <<"\\", "\\">>
      [] c = "\n" -> <<"\\", "n">>
      [] c = "\r" -> <<"\\", "r">>
      [] c = "\t" -> <<"\\", "t">>
      [] OTHER -> <<c>>

RECURSIVE escape(_)
escape(s) == IF s = <<>> THEN <<>> ELSE escapeChar(Head(s)) \o escape(Tail(s))

jsonString(s) == <<"\"">> \o escape(s) \o <<"\"">>

jsonBool(b) == IF b THEN "true" ELSE "false"

\* what EncodeFactsJSON writes: one object per DTO, each member as its JSON
\* literal, and the indentation in use
EncodeFactsJSON(d, pretty) ==
    IF d = <<>> THEN <<>>
    ELSE <<[indent |-> IF pretty THEN "  " ELSE "",
            array |-> [i \in DOMAIN FactsAsJSONDTOs(d) |->
                         LET o == FactsAsJSONDTOs(d)[i]
                         IN [name |-> jsonString(o.Name),
                             value |-> jsonString(o.Value),
                             context |-> jsonString(<<o.ContextRef>>),
                             unit |-> jsonString(<<o.UnitRef>>),
                             nil |-> jsonBool(o.Nil)]]]>>

\* doc.FactsAsJSONDTOs() and doc.EncodeFactsJSON(w, pretty) on the document
\* Parse returned
ExportFacts ==
    /\ result.done /\ result.fn = "Parse" /\ result.err = NoErr
    /\ query = NoQuery
    /\ \E pretty \in BOOLEAN :
          query' = [op |-> "FactsAsJSONDTOs", pretty |-> pretty,
                    out |-> FactsAsJSONDTOs(result.val),
                    written |-> EncodeFactsJSON(result.val, pretty)]
    /\ UNCHANGED <<input, pos, nsStack, stack, doc, result, failAt, resolved,
                   filters, calls, load, threads>>

-----------------------------------------------------------------------------
(* The two parsers as a state machine *)

InitParse ==
    /\ input \in Instances
    /\ stack = <<Frame("Parse", "", <<>>)>>

InitParseTaxonomy ==
    /\ input \in Schemas \cup {<<>>}
    /\ stack = <<Frame("ParseTaxonomy", "", [targetNS |-> "", tax |-> NewTaxonomy])>>

Init ==
    /\ InitParse \/ InitParseTaxonomy
    /\ pos = 1
    /\ nsStack = newNamespaceStack
    /\ doc = NewDocument
    /\ result = NoResult
    /\ failAt = -1
    /\ resolved = {}
    /\ query = NoQuery
    /\ filters = <<>>
    /\ calls = <<>>
    /\ load = NoLoad
    /\ threads = NoThreads

Next ==
    \/ ParseTokenError \/ ParseEOF \/ ParseRoot \/ ParseSchemaRef
    \/ ParseContextStart \/ ParseUnitStart \/ ParseFact \/ ParseFactError
    \/ ParseIgnoredStart \/ ParseEnd \/ ParseCharData
    \/ SubTokenError \/ SubSkip \/ SubSkipError \/ SubIgnore
    \/ CtxEntity \/ CtxPeriod \/ CtxScenario \/ CtxEnd
    \/ EntIdentifier \/ EntIdentifierError \/ EntSegment \/ EntEnd
    \/ PerDate \/ PerDateError \/ PerForever \/ PerForeverError \/ PerEnd
    \/ UnitMeasure \/ UnitMeasureError \/ UnitDivide \/ UnitEnd
    \/ DivContainer \/ DivEnd \/ UmcMeasure \/ UmcMeasureError \/ UmcEnd
    \/ DimExplicit \/ DimExplicitError \/ DimTyped \/ DimTypedError \/ DimEnd
    \/ TaxTokenError \/ TaxEOF \/ TaxSchema \/ TaxElement \/ TaxElementError
    \/ TaxOtherStart \/ TaxEnd \/ TaxCharData
    \/ LookupConcept \/ LookupConceptOf \/ ExportFacts

Spec == Init /\ [][Next]_vars

-----------------------------------------------------------------------------
(* What the XML says, read off the input alone *)

Parsed == result.done /\ result.fn = "Parse" /\ result.err = NoErr
Failed == result.done /\ result.err # NoErr

StartElements(in) == {s \in DOMAIN in : in[s].k = "S"}

\* the elements open around the start element at s, outermost first
Ancestors(in, s) == OpenAt(in, s - 1)

\* the bindings XML puts in scope at the start element at s: those of every
\* open ancestor and those of the element itself, inner ones shadowing
RECURSIVE DeclareAll(_, _, _)
DeclareAll(frame, in, opens) ==
    IF opens = <<>> THEN frame
    ELSE DeclareAll(Declare(frame, in[Head(opens)].attrs), in, Tail(opens))

InScope(in, s) == DeclareAll(EmptyFrame, in, OpenAt(in, s))

IsStructural(se) == isXbrlRoot(se) \/ se.local \in {"schemaRef", "context", "unit"}

CarriesContextRef(se) == \E i \in DOMAIN se.attrs : se.attrs[i].local = "contextRef"

\* an element whose whole subtree belongs to it: a context, a unit or a fact
OwnsSubtree(se) ==
    \/ ~isXbrlRoot(se) /\ se.local # "schemaRef" /\ se.local \in {"context", "unit"}
    \/ ~IsStructural(se) /\ CarriesContextRef(se)

Inside(in, s) ==
    LET up == Ancestors(in, s) IN \E i \in DOMAIN up : OwnsSubtree(in[up[i]])

IsFactElement(in, s) ==
    /\ in[s].k = "S" /\ CarriesContextRef(in[s]) /\ ~IsStructural(in[s])
    /\ ~Inside(in, s)

FactElements(in) == InOrder({s \in DOMAIN in : IsFactElement(in, s)})

IsNamed(in, s, local) ==
    in[s].k = "S" /\ ~isXbrlRoot(in[s]) /\ in[s].local = local /\ ~Inside(in, s)

IsSchemaRefElement(in, s) == IsNamed(in, s, "schemaRef")
IsContextElement(in, s) == in[s].local # "schemaRef" /\ IsNamed(in, s, "context")
IsUnitElement(in, s) == in[s].local # "schemaRef" /\ IsNamed(in, s, "unit")

SchemaRefElements(in) == InOrder({s \in DOMAIN in : IsSchemaRefElement(in, s)})
ContextElements(in) == InOrder({s \in DOMAIN in : IsContextElement(in, s)})
UnitElements(in) == InOrder({s \in DOMAIN in : IsUnitElement(in, s)})

IdOf(se) == Str(AttrLast(se.attrs, "id"))

\* the last element of els that carries the id
LastWithId(in, els, id) ==
    els[CHOOSE i \in DOMAIN els :
           /\ IdOf(in[els[i]]) = id
           /\ \A j \in DOMAIN els : IdOf(in[els[j]]) = id => j <= i]

\* the element at s has a descendant with that local name
HasDescendant(in, s, local) ==
    \E i \in (s + 1)..(MatchEnd(in, s) - 1) : in[i].k = "S" /\ in[i].local = local

-----------------------------------------------------------------------------
(* C1: every prefixed name of an explicitMember, typedMember or measure is *)
(* resolved with exactly the bindings XML puts in scope at that element:   *)
(* those of the element and of its open ancestors, and none of an earlier, *)
(* closed sibling subtree.                                                 *)
C1_ResolvedInScope ==
    \A r \in resolved : r.prefix # "" => r.uri = Lookup(InScope(input, r.at), r.prefix)

-----------------------------------------------------------------------------
(* C3: after a successful Parse the facts are exactly, in document order,  *)
(* the elements that carry contextRef, are not structurally recognised and *)
(* are not inside a context, a unit or another fact; an element without    *)
(* contextRef is never a fact.                                             *)
C3_FactsAreContextRefElements ==
    Parsed =>
        LET facts == result.val[1].facts
            els == FactElements(input)
        IN /\ Len(facts) = Len(els)
           /\ \A i \in DOMAIN els :
                 /\ CarriesContextRef(input[els[i]])
                 /\ [facts[i] EXCEPT !.name.prefix = ""] = parseItemFact(input, els[i], "")

\* a parsed document with a fact beside an element that has no contextRef
C3_Witness ==
    /\ Parsed /\ result.val[1].facts # <<>>
    /\ \E s \in StartElements(input) :
          /\ ~CarriesContextRef(input[s]) /\ ~IsStructural(input[s])
          /\ Len(Ancestors(input, s)) = 1

-----------------------------------------------------------------------------
(* C4: after a successful Parse the document holds one schema reference    *)
(* per schemaRef element in order, one context per distinct context id and *)
(* one unit per distinct unit id, the later element with an id replacing   *)
(* the earlier, and one fact per fact element; the minimal instance gives  *)
(* the counts 1/1/1/1.                                                     *)
C4_Counts ==
    Parsed =>
        LET d == result.val[1]
            srs == SchemaRefElements(input)
            cs == ContextElements(input)
            us == UnitElements(input)
        IN /\ d.schemaRefs = [i \in DOMAIN srs |-> parseSchemaRef(input[srs[i]])]
           /\ DOMAIN d.contexts = {IdOf(input[cs[i]]) : i \in DOMAIN cs}
           /\ DOMAIN d.units = {IdOf(input[us[i]]) : i \in DOMAIN us}
           /\ \A id \in DOMAIN d.contexts :
                 /\ d.contexts[id].id = id
                 /\ d.contexts[id].period.instant # <<>>
                       <=> HasDescendant(input, LastWithId(input, cs, id), "instant")
           /\ \A id \in DOMAIN d.units :
                 /\ d.units[id].id = id
                 /\ d.units[id].divide
                       <=> HasDescendant(input, LastWithId(input, us, id), "divide")
           /\ Len(d.facts) = Len(FactElements(input))
           /\ input = MinimalInstance =>
                 /\ Len(d.schemaRefs) = 1 /\ Cardinality(DOMAIN d.contexts) = 1
                 /\ Cardinality(DOMAIN d.units) = 1 /\ Len(d.facts) = 1

\* a parsed document with two contexts of one id, differing in their period
C4_Witness ==
    /\ Parsed
    /\ LET cs == ContextElements(input) IN
       /\ Len(cs) = 2
       /\ IdOf(input[cs[1]]) = IdOf(input[cs[2]])
       /\ HasDescendant(input, cs[1], "instant")
       /\ ~HasDescendant(input, cs[2], "instant")

-----------------------------------------------------------------------------
(* C5: Parse and ParseTaxonomy never return a partial result: when the     *)
(* token stream fails anywhere, the call returns an error and no Document  *)
(* or Taxonomy, whatever had been collected.                               *)
C5_NoPartialResult ==
    /\ failAt # -1 => Failed
    /\ Failed => result.val = <<>>

\* a parse that failed after a fact had been collected
C5_Witness == Failed /\ failAt # -1 /\ doc.facts # <<>>

-----------------------------------------------------------------------------
(* C6: when the input ends before the close of an open structural element, *)
(* Parse fails with an error naming the innermost open one of context,     *)
(* entity, period, unit, divide, segment/scenario, also when the input     *)
(* ends inside a child of that element.                                    *)

\* the structural children a structural element is parsed for
StructuralChildren(local) ==
    CASE local = "" -> {"context", "unit"}
      [] local = "context" -> {"entity", "period", "scenario"}
      [] local = "entity" -> {"segment"}
      [] local = "unit" -> {"divide"}
      [] OTHER -> {}

\* the innermost structural element among the open elements, "" for none:
\* the walk goes down from the root for as long as each element is a
\* structural child of the one before
RECURSIVE InnermostStructural(_, _, _)
InnermostStructural(in, opens, cur) ==
    IF opens = <<>> THEN cur
    ELSE LET se == in[Head(opens)] IN
         IF cur = "" /\ isXbrlRoot(se) THEN InnermostStructural(in, Tail(opens), cur)
         ELSE IF se.local \in StructuralChildren(cur)
              THEN InnermostStructural(in, Tail(opens), se.local)
              ELSE cur

ErrorNames(err, local) ==
    /\ Len(err) >= 2
    /\ err[2] \in {"parse " \o local, "parse dimensions (" \o local \o ")"}

C6_ErrorNamesOpenElement ==
    (Failed /\ result.fn = "Parse") =>
        LET open == InnermostStructural(input, OpenAt(input, failAt), "")
        IN open # "" => ErrorNames(result.err, open)

-----------------------------------------------------------------------------
(* C7: every error Parse or ParseTaxonomy returns for malformed or         *)
(* truncated input starts with the prefix "xbrl:", on every failure path.  *)
C7_ErrorsHavePrefix == Failed => result.err[1] = "xbrl:"

-----------------------------------------------------------------------------
(* C2: concept lookup compares QNames by uri and local name only:          *)
(* Taxonomy.Concept(q) and Document.ConceptOf(fact named q) find a concept *)
(* whenever the registry holds one with the uri and local name of q,       *)
(* whatever the two prefixes are.                                          *)
C2_LookupIgnoresPrefix ==
    query.op \in {"Concept", "ConceptOf"} =>
        ((\E k \in DOMAIN result.val[1].concepts :
              k.uri = query.q.uri /\ k.local = query.q.local)
         => query.out.ok)

-----------------------------------------------------------------------------
(* Concept.ValueKind *)

XbrliNumericTypes ==
    {"sharesItemType", "perShareItemType", "decimalItemType", "integerItemType",
     "nonNegativeIntegerItemType", "nonPositiveIntegerItemType",
     "positiveIntegerItemType", "negativeIntegerItemType", "pureItemType",
     "fractionItemType"}

XsdNumericTypes ==
    {"decimal", "integer", "nonNegativeInteger", "nonPositiveInteger",
     "positiveInteger", "negativeInteger", "int", "long", "short", "byte",
     "unsignedInt", "unsignedLong", "unsignedShort", "unsignedByte", "float", "double"}

\* a classification that leaves a type of neither namespace unknown
ValueKindKnownOnly(c) ==
    IF c = <<>> \/ c[1].typeName.uri \notin {nsXBRLI, nsXSD} THEN "unknown"
    ELSE "string"

\* c is a *Concept: <<>> for nil
ValueKind(c) ==
    IF c = <<>> THEN "unknown"
    ELSE LET t == c[1].typeName IN
         IF t.uri = nsXBRLI
         THEN CASE t.local = "monetaryItemType" -> "monetary"
                [] t.local \in XbrliNumericTypes -> "numeric"
                [] t.local = "booleanItemType" -> "boolean"
                [] t.local = "dateItemType" -> "date"
                [] t.local = "dateTimeItemType" -> "dateTime"
                [] OTHER -> "string"
         ELSE IF t.uri = nsXSD
         THEN CASE t.local \in XsdNumericTypes -> "numeric"
                [] t.local = "boolean" -> "boolean"
                [] t.local = "date" -> "date"
                [] t.local = "dateTime" -> "dateTime"
                [] OTHER -> "string"
         ELSE "string"

-----------------------------------------------------------------------------
(* Errors of the typed accessors.  is names the sentinel errors.Is finds   *)
(* in the error, "" when there is none; msg is the message, <<>> for nil.  *)

NoError == [is |-> "", msg |-> <<>>]

ErrNoTaxonomy ==
    [is |-> "ErrNoTaxonomy", msg |-> <<"xbrl: no taxonomy attached to document">>]
ErrNoConcept ==
    [is |-> "ErrNoConcept", msg |-> <<"xbrl: concept not found for fact">>]
ErrUnsupportedType ==
    [is |-> "ErrUnsupportedType",
     msg |-> <<"xbrl: unsupported value type for this conversion">>]
ErrInvalidValue ==
    [is |-> "ErrInvalidValue", msg |-> <<"xbrl: invalid lexical form for type">>]

\* fmt.Errorf(msg): a fresh error that equals no sentinel
Errorf(msg) == [is |-> "", msg |-> <<msg>>]

\* an error built with %v: the sentinel can no longer be found in it
WrapOpaque(sentinel, detail) == [is |-> "", msg |-> sentinel.msg \o <<detail>>]

\* fmt.Errorf("%w: %v", sentinel, err)
WrapErr(sentinel, detail) == [is |-> sentinel.is, msg |-> sentinel.msg \o <<detail>>]

-----------------------------------------------------------------------------
(* strconv.ParseInt(v, 10, 64).  Numbers wider than the checker's integers *)
(* are sequences of decimal digits without leading zeros.                  *)

Digits == <<"0", "1", "2", "3", "4", "5", "6", "7", "8", "9">>

IsDigit(c) == c \in Range(Digits)

DigitVal(c) == (CHOOSE i \in DOMAIN Digits : Digits[i] = c) - 1

RECURSIVE Normalize(_)
Normalize(ds) ==
    IF Len(ds) > 1 /\ Head(ds) = "0" THEN Normalize(Tail(ds)) ELSE ds

\* a < b for two numbers without leading zeros
NumLess(a, b) ==
    \/ Len(a) < Len(b)
    \/ /\ Len(a) = Len(b)
       /\ \E i \in DOMAIN a :
             /\ DigitVal(a[i]) < DigitVal(b[i])
             /\ \A j \in 1..(i - 1) : a[j] = b[j]

\* 1<<64 - 1
MaxUint64 ==
    <<"1", "8", "4", "4", "6", "7", "4", "4", "0", "7",
      "3", "7", "0", "9", "5", "5", "1", "6", "1", "5">>

\* MaxUint64/10 + 1
UintCutoff ==
    <<"1", "8", "4", "4", "6", "7", "4", "4", "0", "7",
      "3", "7", "0", "9", "5", "5", "1", "6", "2">>

\* 1<<63
IntCutoff ==
    <<"9", "2", "2", "3", "3", "7", "2", "0", "3", "6",
      "8", "5", "4", "7", "7", "5", "8", "0", "8">>

\* the loop of ParseUint: n is the number read so far
RECURSIVE ParseUintFrom(_, _)
ParseUintFrom(s, n) ==
    IF s = <<>> THEN [err |-> "", un |-> n]
    ELSE IF ~IsDigit(Head(s)) THEN [err |-> "syntax", un |-> <<"0">>]
    ELSE IF ~NumLess(n, UintCutoff) THEN [err |-> "range", un |-> MaxUint64]
    ELSE LET n1 == Normalize(Append(n, Head(s))) IN
         IF NumLess(MaxUint64, n1) THEN [err |-> "range", un |-> MaxUint64]
         ELSE ParseUintFrom(Tail(s), n1)

ParseUint(s) ==
    IF s = <<>> THEN [err |-> "syntax", un |-> <<"0">>] ELSE ParseUintFrom(s, <<"0">>)

Zero == [neg |-> FALSE, digits |-> <<"0">>]

ParseInt(s) ==
    IF s = <<>> THEN [err |-> "syntax", n |-> Zero]
    ELSE LET neg == Head(s) = "-"
             s0 == IF Head(s) \in {"+", "-"} THEN Tail(s) ELSE s
             u == ParseUint(s0)
         IN IF u.err = "syntax" THEN [err |-> "syntax", n |-> Zero]
            ELSE IF ~neg /\ ~NumLess(u.un, IntCutoff) THEN [err |-> "range", n |-> Zero]
            ELSE IF neg /\ NumLess(IntCutoff, u.un) THEN [err |-> "range", n |-> Zero]
            ELSE [err |-> "",
                  n |-> [neg |-> neg /\ u.un # <<"0">>, digits |-> u.un]]

ContainsAny(s, chars) == \E i \in DOMAIN s : s[i] \in chars

-----------------------------------------------------------------------------
(* strconv.ParseFloat(v, 64) on decimal forms, and time.Parse on the two   *)
(* layouts of AsTime.  The results are the parts that were read.           *)

AllDigits(s) == \A i \in DOMAIN s : IsDigit(s[i])

\* the position of the first piece of s in chars, Len(s) + 1 when none is
FirstOf(s, chars) ==
    IF \E i \in DOMAIN s : s[i] \in chars
    THEN CHOOSE i \in DOMAIN s : s[i] \in chars /\ \A j \in 1..(i - 1) : s[j] \notin chars
    ELSE Len(s) + 1

Unsign(s) == IF s # <<>> /\ Head(s) \in {"+", "-"} THEN Tail(s) ELSE s

ParseFloat(s) ==
    LET body == Unsign(s)
        e == FirstOf(body, {"e", "E"})
        mant == SubSeq(body, 1, e - 1)
        dot == FirstOf(mant, {"."})
        int == SubSeq(mant, 1, dot - 1)
        frac == SubSeq(mant, dot + 1, Len(mant))
        exp == SubSeq(body, e + 1, Len(body))
        special == \/ ToLower(body) \in {<<"i", "n", "f">>,
                                         <<"i", "n", "f", "i", "n", "i", "t", "y">>}
                   \/ ToLower(s) = <<"n", "a", "n">>
        decimal == /\ AllDigits(int) /\ AllDigits(frac) /\ int \o frac # <<>>
                   /\ e <= Len(body) => Unsign(exp) # <<>> /\ AllDigits(Unsign(exp))
    IN IF special THEN [err |-> "", f |-> [special |-> ToLower(s)]]
       ELSE IF decimal
       THEN [err |-> "",
             f |-> [neg |-> s # <<>> /\ Head(s) = "-", int |-> int, frac |-> frac,
                    exp |-> exp]]
       ELSE [err |-> "syntax", f |-> <<>>]

RECURSIVE NumVal(_)
NumVal(ds) == IF ds = <<>> THEN 0 ELSE 10 * NumVal(SubSeq(ds, 1, Len(ds) - 1)) + DigitVal(ds[Len(ds)])

IsLeap(y) == y % 4 = 0 /\ (y % 100 # 0 \/ y % 400 = 0)

DaysIn(y, m) ==
    IF m = 2 THEN (IF IsLeap(y) THEN 29 ELSE 28)
    ELSE IF m \in {4, 6, 9, 11} THEN 30 ELSE 31

\* layout "2006-01-02"
ParseDate(s) ==
    LET y == NumVal(SubSeq(s, 1, 4))
        m == NumVal(SubSeq(s, 6, 7))
        d == NumVal(SubSeq(s, 9, 10))
    IN IF /\ Len(s) = 10 /\ s[5] = "-" /\ s[8] = "-"
          /\ AllDigits(SubSeq(s, 1, 4) \o SubSeq(s, 6, 7) \o SubSeq(s, 9, 10))
          /\ m \in 1..12 /\ d \in 1..DaysIn(y, m)
       THEN [err |-> "", t |-> [y |-> y, m |-> m, d |-> d]]
       ELSE [err |-> "parse", t |-> <<>>]

\* "15:04:05" with the fraction a value may carry: the hour has one or two
\* digits; rest is what follows
ParseClock(s) ==
    LET hl == IF Len(s) >= 2 /\ IsDigit(s[2]) THEN 2 ELSE 1
        c == SubSeq(s, hl + 1, hl + 6)
        after == SubSeq(s, hl + 7, Len(s))
        fl == IF Len(after) >= 2 /\ after[1] \in {".", ","} /\ IsDigit(after[2])
              THEN FirstOf(Tail(after), {x \in Range(after) : ~IsDigit(x)})
              ELSE 0
    IN IF /\ Len(s) >= hl + 6 /\ AllDigits(SubSeq(s, 1, hl))
          /\ c[1] = ":" /\ c[4] = ":" /\ AllDigits(<<c[2], c[3], c[5], c[6]>>)
          /\ NumVal(SubSeq(s, 1, hl)) < 24
          /\ NumVal(<<c[2], c[3]>>) < 60 /\ NumVal(<<c[5], c[6]>>) < 60
       THEN [err |-> "",
             c |-> [h |-> NumVal(SubSeq(s, 1, hl)), min |-> NumVal(<<c[2], c[3]>>),
                    sec |-> NumVal(<<c[5], c[6]>>), frac |-> SubSeq(after, 2, fl)],
             rest |-> SubSeq(after, fl + 1, Len(after))]
       ELSE [err |-> "parse", c |-> <<>>, rest |-> <<>>]

\* "Z07:00"
IsZone(z) ==
    \/ z = <<"Z">>
    \/ /\ Len(z) = 6 /\ z[1] \in {"+", "-"} /\ z[4] = ":"
       /\ AllDigits(<<z[2], z[3], z[5], z[6]>>)
       /\ NumVal(<<z[2], z[3]>>) < 24 /\ NumVal(<<z[5], z[6]>>) < 60

\* layouts time.RFC3339 (zoned) and "2006-01-02T15:04:05"
ParseDateTime(s, zoned) ==
    LET d == ParseDate(SubSeq(s, 1, 10))
        c == ParseClock(SubSeq(s, 12, Len(s)))
    IN IF /\ Len(s) >= 11 /\ s[11] = "T" /\ d.err = "" /\ c.err = ""
          /\ IF zoned THEN IsZone(c.rest) ELSE c.rest = <<>>
       THEN [err |-> "", t |-> [date |-> d.t, clock |-> c.c, zone |-> c.rest]]
       ELSE [err |-> "parse", t |-> <<>>]

-----------------------------------------------------------------------------
(* The typed accessors.  d is a *Document and f a *Fact: <<>> for nil.     *)

\* the checks the four accessors start with
Precheck(d, f) ==
    IF d = <<>> THEN Errorf("xbrl: document is nil")
    ELSE IF d[1].taxonomy = <<>> THEN ErrNoTaxonomy
    ELSE IF f = <<>> THEN Errorf("xbrl: fact is nil")
    ELSE IF f[1].nil THEN ErrInvalidValue
    ELSE IF ~ConceptOf(d, f).ok \/ ConceptOf(d, f).c = <<>> THEN ErrNoConcept
    ELSE NoError

ZeroTime == <<>>
ZeroFloat == <<>>

Out(val, err) == [val |-> val, err |-> err]

AsInt64(d, f) ==
    IF Precheck(d, f) # NoError THEN Out(Zero, Precheck(d, f))
    ELSE IF ValueKind(ConceptOf(d, f).c) \in {"numeric", "monetary"}
    THEN LET v == TrimSpace(f[1].value) IN
         IF ContainsAny(v, {".", "e", "E"}) THEN Out(Zero, ErrInvalidValue)
         ELSE IF ParseInt(v).err # ""
         THEN Out(Zero, WrapErr(ErrInvalidValue, ParseInt(v).err))
         ELSE Out(ParseInt(v).n, NoError)
    ELSE Out(Zero, ErrUnsupportedType)

AsFloat64(d, f) ==
    IF Precheck(d, f) # NoError THEN Out(ZeroFloat, Precheck(d, f))
    ELSE IF ValueKind(ConceptOf(d, f).c) \in {"numeric", "monetary"}
    THEN LET r == ParseFloat(TrimSpace(f[1].value)) IN
         IF r.err # "" THEN Out(ZeroFloat, WrapErr(ErrInvalidValue, r.err))
         ELSE Out(r.f, NoError)
    ELSE Out(ZeroFloat, ErrUnsupportedType)

AsBool(d, f) ==
    IF Precheck(d, f) # NoError THEN Out(FALSE, Precheck(d, f))
    ELSE IF ValueKind(ConceptOf(d, f).c) # "boolean" THEN Out(FALSE, ErrUnsupportedType)
    ELSE LET v == ToLower(TrimSpace(f[1].value)) IN
         IF v \in {<<"t", "r", "u", "e">>, <<"1">>} THEN Out(TRUE, NoError)
         ELSE IF v \in {<<"f", "a", "l", "s", "e">>, <<"0">>} THEN Out(FALSE, NoError)
         ELSE Out(FALSE, ErrInvalidValue)

\* loc is nil: time.UTC
AsTime(d, f) ==
    IF Precheck(d, f) # NoError THEN Out(ZeroTime, Precheck(d, f))
    ELSE LET v == TrimSpace(f[1].value)
             kind == ValueKind(ConceptOf(d, f).c)
         IN IF kind = "date"
            THEN IF ParseDate(v).err # ""
                 THEN Out(ZeroTime, WrapErr(ErrInvalidValue, ParseDate(v).err))
                 ELSE Out(ParseDate(v).t, NoError)
            ELSE IF kind = "dateTime"
            THEN IF ParseDateTime(v, TRUE).err = ""
                 THEN Out(ParseDateTime(v, TRUE).t, NoError)
                 ELSE IF ParseDateTime(v, FALSE).err = ""
                 THEN Out(ParseDateTime(v, FALSE).t, NoError)
                 ELSE Out(ZeroTime, ErrInvalidValue)
            ELSE Out(ZeroTime, ErrUnsupportedType)

-----------------------------------------------------------------------------
(* The documents and facts the accessors are called with: a taxonomy as    *)
(* ParseTaxonomy builds it from a schema binding the target namespace ua   *)
(* to prefix t, and facts as Parse builds them from an instance binding ua *)
(* to prefix a or to prefix t.                                             *)

ConceptTypes ==
    [Int |-> QName("xs", "integer", nsXSD),
     Money |-> QName("x", "monetaryItemType", nsXBRLI),
     Share |-> QName("x", "sharesItemType", nsXBRLI),
     Bool |-> QName("xs", "boolean", nsXSD),
     Date |-> QName("x", "dateItemType", nsXBRLI),
     Stamp |-> QName("xs", "dateTime", nsXSD),
     Text |-> QName("xs", "string", nsXSD),
     Odd |-> QName("o", "integer", "ub"),
     Bare |-> QName("", "", "")]

TypedConcept(local) ==
    [qname |-> QName("t", local, "ua"), id |-> local,
     substitutionGroup |-> QName("x", "item", nsXBRLI),
     typeName |-> ConceptTypes[local],
     abstract |-> FALSE, nillable |-> TRUE, periodType |-> "", balance |-> ""]

TypedTaxonomy ==
    [concepts |-> [q \in {QName("t", l, "ua") : l \in DOMAIN ConceptTypes} |->
                     TypedConcept(q.local)],
     made |-> TRUE]

Documents ==
    {<<>>, <<NewDocument>>, <<[NewDocument EXCEPT !.taxonomy = <<TypedTaxonomy>>]>>}

Values ==
    {<<>>, <<"4", "2">>, <<" ", "4", "2", "\n">>, <<"-", "7">>, <<"+", "7">>,
     <<"0", "0", "7">>, <<"-", "0">>, <<"4", " ", "2">>, <<"+", "-", "5">>, <<"-">>,
     <<"1", "2", "3", ".", "4", "5">>, <<"1", "e", "3">>, <<"1", "E", "3">>, <<"1", "e">>,
     <<"a", "b", "c">>, <<"i", "n", "f">>, <<"0">>, <<"1">>,
     <<"t", "r", "u", "e">>, <<"T", "R", "U", "E">>, <<" ", "F", "a", "l", "s", "e">>,
     <<"y", "e", "s">>, <<"n", "o">>, <<" ", "1", " ">>,
     <<"9", "2", "2", "3", "3", "7", "2", "0", "3", "6",
       "8", "5", "4", "7", "7", "5", "8", "0", "7">>,
     IntCutoff, <<"-">> \o IntCutoff,
     <<"-", "9", "2", "2", "3", "3", "7", "2", "0", "3", "6",
       "8", "5", "4", "7", "7", "5", "8", "0", "9">>,
     MaxUint64, <<"1">> \o MaxUint64,
     <<"2", "0", "2", "4", "-", "0", "2", "-", "2", "9">>,
     <<"2", "0", "2", "3", "-", "0", "2", "-", "2", "9">>,
     <<"2", "0", "2", "4", "-", "0", "2", "-", "2", "9",
       "T", "1", "0", ":", "3", "0", ":", "0", "0">>,
     <<"2", "0", "2", "4", "-", "0", "2", "-", "2", "9",
       "T", "1", "0", ":", "3", "0", ":", "0", "0", "Z">>,
     <<"2", "0", "2", "4", "-", "0", "2", "-", "2", "9",
       "T", "1", "0", ":", "3", "0", ":", "0", "0", ".", "5", "+", "0", "9", ":", "0", "0">>}

FactNames ==
    {QName(p, l, "ua") : p \in {"a", "t"}, l \in DOMAIN ConceptTypes \cup {"Missing"}}

NewFact(name, value, nil) ==
    [FactFromAttrs(St(name.uri, name.local, <<At("", "contextRef", <<"C", "1">>)>>),
                   name.prefix)
       EXCEPT !.value = value, !.nil = nil]

Facts ==
    {<<>>} \cup {<<NewFact(n, v, b)>> : n \in FactNames, v \in Values, b \in BOOLEAN}

Ask(op, d, f, out) == [op |-> op, d |-> d, f |-> f, out |-> out]

CallAsInt64 ==
    /\ query = NoQuery
    /\ \E d \in Documents, f \in Facts : query' = Ask("AsInt64", d, f, AsInt64(d, f))
    /\ UNCHANGED <<input, pos, nsStack, stack, doc, result, failAt, resolved,
                   filters, calls, load, threads>>

CallAsFloat64 ==
    /\ query = NoQuery
    /\ \E d \in Documents, f \in Facts : query' = Ask("AsFloat64", d, f, AsFloat64(d, f))
    /\ UNCHANGED <<input, pos, nsStack, stack, doc, result, failAt, resolved,
                   filters, calls, load, threads>>

CallAsBool ==
    /\ query = NoQuery
    /\ \E d \in Documents, f \in Facts : query' = Ask("AsBool", d, f, AsBool(d, f))
    /\ UNCHANGED <<input, pos, nsStack, stack, doc, result, failAt, resolved,
                   filters, calls, load, threads>>

CallAsTime ==
    /\ query = NoQuery
    /\ \E d \in Documents, f \in Facts : query' = Ask("AsTime", d, f, AsTime(d, f))
    /\ UNCHANGED <<input, pos, nsStack, stack, doc, result, failAt, resolved,
                   filters, calls, load, threads>>

\* the type names ValueKind is asked about: every name of the two tables,
\* names of neither, and names in another letter case
TypeLocals ==
    XbrliNumericTypes \cup XsdNumericTypes \cup
    {"monetaryItemType", "booleanItemType", "dateItemType", "dateTimeItemType",
     "stringItemType", "boolean", "date", "dateTime", "string", "normalizedString",
     "unknownItemType", "someType", "any", "Boolean", "datetime", ""}

TypeURIs == {nsXBRLI, nsXSD, "http://example.com", ""}

\* NewConceptForTest with the type name of the case, and the nil *Concept
KindConcepts ==
    {<<>>} \cup
    {<<[TypedConcept("Text") EXCEPT !.typeName = QName(p, l, u)]>> :
        p \in {"", "t"}, l \in TypeLocals, u \in TypeURIs}

CallValueKind ==
    /\ query = NoQuery
    /\ \E c \in KindConcepts : query' = [op |-> "ValueKind", c |-> c, out |-> ValueKind(c)]
    /\ UNCHANGED <<input, pos, nsStack, stack, doc, result, failAt, resolved,
                   filters, calls, load, threads>>

\* an element declaration with the value as its abstract and its nillable
\* attribute, <<>> for a declaration without the two, parsed in a schema
\* that binds the target namespace ua to t; and AsBool on a fact of the
\* boolean concept with the same value
FlagDeclaration(attr) ==
    St(nsXSD, "element",
       <<At("", "name", <<"Flag">>)>> \o
       (IF attr = <<>> THEN <<>>
        ELSE <<At("", "abstract", attr[1]), At("", "nillable", attr[1])>>))

CallParseBool ==
    /\ query = NoQuery
    /\ \E attr \in {<<>>} \cup {<<v>> : v \in Values} :
          LET ns == Push(Push(newNamespaceStack, SchemaRootPrefixed), FlagDeclaration(attr))
              c == conceptFromElement(FlagDeclaration(attr), "ua", ns, "t")
              d == [NewDocument EXCEPT !.taxonomy = <<TypedTaxonomy>>]
              f == NewFact(QName("t", "Bool", "ua"), IF attr = <<>> THEN <<>> ELSE attr[1],
                           FALSE)
          IN query' = [op |-> "parseBool", attr |-> attr,
                       abstract |-> c[1].abstract, nillable |-> c[1].nillable,
                       asBool |-> AsBool(<<d>>, <<f>>)]
    /\ UNCHANGED <<input, pos, nsStack, stack, doc, result, failAt, resolved,
                   filters, calls, load, threads>>

\* the concepts and registries of the Merge tests: A declared twice under
\* one QName, B, and A as a schema binding the namespace to another prefix
\* declares it
MergeConcept(prefix, local, id) ==
    [TypedConcept("Text") EXCEPT !.qname = QName(prefix, local, "urn:test"), !.id = id]

NewTaxonomyForTest(concepts) ==
    [concepts |-> [q \in {c.qname : c \in concepts} |->
                     CHOOSE c \in concepts : c.qname = q],
     made |-> TRUE]

\* NewTaxonomyForTest(nil)
NilMapTaxonomy == [concepts |-> EmptyMap, made |-> FALSE]

MergeTaxonomies ==
    {NilMapTaxonomy, NewTaxonomy,
     NewTaxonomyForTest({MergeConcept("p", "A", "C1")}),
     NewTaxonomyForTest({MergeConcept("p", "A", "C1-override"),
                         MergeConcept("p", "B", "C2")}),
     NewTaxonomyForTest({MergeConcept("p", "B", "C2")}),
     NewTaxonomyForTest({MergeConcept("x", "A", "C1-x")})}

\* two taxonomies on the heap; t.Merge(other) for t and other nil, the
\* first or the second, and the same call once more
CallMerge ==
    /\ query = NoQuery
    /\ \E a \in MergeTaxonomies, b \in MergeTaxonomies, t \in 0..2, other \in 0..2 :
          query' = [op |-> "Merge", before |-> <<a, b>>, t |-> t, other |-> other,
                    after |-> Merge(<<a, b>>, t, other),
                    again |-> Merge(Merge(<<a, b>>, t, other), t, other)]
    /\ UNCHANGED <<input, pos, nsStack, stack, doc, result, failAt, resolved,
                   filters, calls, load, threads>>

\* strings.Fields and strings.Join on a string of one character per piece.
\* NBSP is U+00A0, IDSP is U+3000, EMSP is U+2003, NEL is U+0085: white space
\* to unicode.IsSpace, as are the ASCII space characters
UnicodeSpace == SpaceChars \cup {"\f", "NBSP", "IDSP", "EMSP", "NEL"}

\* the length of the first field of s, which starts with no space
FieldLen(s, spaces) ==
    IF \E i \in DOMAIN s : s[i] \in spaces
    THEN (CHOOSE i \in DOMAIN s :
             s[i] \in spaces /\ \A j \in 1..(i - 1) : s[j] \notin spaces) - 1
    ELSE Len(s)

\* the maximal runs of characters that are not in spaces
RECURSIVE FieldsFunc(_, _)
FieldsFunc(s, spaces) ==
    IF s = <<>> THEN <<>>
    ELSE IF Head(s) \in spaces THEN FieldsFunc(Tail(s), spaces)
    ELSE <<SubSeq(s, 1, FieldLen(s, spaces))>>
            \o FieldsFunc(SubSeq(s, FieldLen(s, spaces) + 1, Len(s)), spaces)

Fields(s) == FieldsFunc(s, UnicodeSpace)

RECURSIVE Join(_, _)
Join(fields, sep) ==
    IF fields = <<>> THEN <<>>
    ELSE IF Len(fields) = 1 THEN fields[1]
    ELSE fields[1] \o <<sep>> \o Join(Tail(fields), sep)

\* the Replacer of normalizeSpace: no-break and ideographic space to " "
Replace(s) == [i \in DOMAIN s |-> IF s[i] \in {"NBSP", "IDSP"} THEN " " ELSE s[i]]

\* a normalisation that splits at ASCII white space and replaces afterwards
normalizeSpaceLate(s) ==
    IF s = <<>> THEN <<>>
    ELSE Replace(Join(FieldsFunc(s, SpaceChars), " "))

normalizeSpace(s) ==
    IF s = <<>> THEN <<>>
    ELSE Join(Fields(Replace(s)), " ")

\* (f *Fact) NormalizedValue
NormalizedValue(f) == IF f = <<>> THEN <<>> ELSE normalizeSpace(f[1].value)

MaxText == 4

TextChars == {"a", "b", " ", "\t", "NBSP", "IDSP", "EMSP"}

Texts == UNION {[1..n -> TextChars] : n \in 0..MaxText}

\* NormalizedValue of a fact with the text, and of a fact with what that gave
CallNormalizedValue ==
    /\ query = NoQuery
    /\ \E s \in Texts :
          LET f == NewFact(QName("a", "Note", "ua"), s, FALSE)
              out == NormalizedValue(<<f>>)
          IN query' = [op |-> "NormalizedValue", in |-> s, out |-> out,
                       again |-> NormalizedValue(<<[f EXCEPT !.value = out]>>),
                       absent |-> NormalizedValue(<<>>)]
    /\ UNCHANGED <<input, pos, nsStack, stack, doc, result, failAt, resolved,
                   filters, calls, load, threads>>

InitValue ==
    /\ input = <<>>
    /\ pos = 1
    /\ nsStack = newNamespaceStack
    /\ stack = <<>>
    /\ doc = NewDocument
    /\ result = NoResult
    /\ failAt = -1
    /\ resolved = {}
    /\ query = NoQuery
    /\ filters = <<>>
    /\ calls = <<>>
    /\ load = NoLoad
    /\ threads = NoThreads

NextValue ==
    \/ CallAsInt64 \/ CallAsFloat64 \/ CallAsBool \/ CallAsTime
    \/ CallValueKind \/ CallMerge \/ CallParseBool \/ CallNormalizedValue

SpecValue == InitValue /\ [][NextValue]_vars

-----------------------------------------------------------------------------
(* What the accessors are specified to do, read off the call alone *)

IsAccessorCall == query.op \in {"AsInt64", "AsFloat64", "AsBool", "AsTime"}

AcceptedKinds(op) ==
    CASE op \in {"AsInt64", "AsFloat64"} -> {"numeric", "monetary"}
      [] op = "AsBool" -> {"boolean"}
      [] op = "AsTime" -> {"date", "dateTime"}

\* the concepts of the attached taxonomy that have the uri and the local
\* name of the fact's name
NamedConcepts(d, f) ==
    LET cs == d[1].taxonomy[1].concepts IN
    {cs[k] : k \in {k \in DOMAIN cs : k.uri = f[1].name.uri /\ k.local = f[1].name.local}}

FirstUnmet(op, d, f) ==
    IF d = <<>> THEN "document"
    ELSE IF d[1].taxonomy = <<>> THEN "taxonomy"
    ELSE IF f = <<>> THEN "fact"
    ELSE IF f[1].nil THEN "nil"
    ELSE IF NamedConcepts(d, f) = {} THEN "concept"
    ELSE IF \A c \in NamedConcepts(d, f) : ValueKind(<<c>>) \notin AcceptedKinds(op)
    THEN "kind"
    ELSE "none"

FailureOf(unmet) ==
    CASE unmet = "document" -> Errorf("xbrl: document is nil")
      [] unmet = "taxonomy" -> ErrNoTaxonomy
      [] unmet = "fact" -> Errorf("xbrl: fact is nil")
      [] unmet = "nil" -> ErrInvalidValue
      [] unmet = "concept" -> ErrNoConcept
      [] unmet = "kind" -> ErrUnsupportedType

\* an optionally signed base-10 integer within the signed 64-bit range
IsInt64Lexical(t) ==
    /\ Unsign(t) # <<>> /\ AllDigits(Unsign(t))
    /\ LET mag == Normalize(Unsign(t)) IN
       IF Head(t) = "-" THEN ~NumLess(IntCutoff, mag) ELSE NumLess(mag, IntCutoff)

IntegerOf(t) ==
    [neg |-> Head(t) = "-" /\ Normalize(Unsign(t)) # <<"0">>,
     digits |-> Normalize(Unsign(t))]

-----------------------------------------------------------------------------
(* C8: the failure of AsInt64, AsFloat64, AsBool and AsTime is decided by  *)
(* the first unmet precondition in the order Document present, Taxonomy    *)
(* attached, Fact present, Fact not nil-flagged, Concept resolvable by the *)
(* fact's name, Concept kind accepted; the lexical form of the value is    *)
(* examined only when all of them hold.                                    *)
C8_FirstUnmetPrecondition ==
    IsAccessorCall =>
        LET unmet == FirstUnmet(query.op, query.d, query.f) IN
        IF unmet # "none"
        THEN query.out.err = FailureOf(unmet)
        ELSE query.out.err.is \in {"", "ErrInvalidValue"}

-----------------------------------------------------------------------------
(* C9 as stated: every failure of a typed accessor is one of six sentinels *)
(* a caller can compare against, the document-absent and fact-absent       *)
(* failures included, and the failure for an absent or nil-flagged fact is *)
(* another condition than the invalid-lexical-form failure.                *)
C9_SixSentinels ==
    (IsAccessorCall /\ query.out.err # NoError) =>
        /\ query.out.err.is # ""
        /\ FirstUnmet(query.op, query.d, query.f) \in {"fact", "nil"}
              => query.out.err.is # "ErrInvalidValue"

(* C9 as the code has it: every failure of a typed accessor is one of the  *)
(* four sentinels taxonomy-absent, concept-not-found, unsupported-type and *)
(* invalid-lexical-form, or one of the two errors for an absent document   *)
(* and an absent fact, which equal no sentinel and are known by their      *)
(* message; a nil-flagged fact fails with the invalid-lexical-form         *)
(* sentinel.                                                               *)
C9_FourSentinels ==
    (IsAccessorCall /\ query.out.err # NoError) =>
        LET err == query.out.err
            unmet == FirstUnmet(query.op, query.d, query.f)
        IN /\ \/ err.is \in {"ErrNoTaxonomy", "ErrNoConcept", "ErrUnsupportedType",
                             "ErrInvalidValue"}
              \/ /\ err.is = ""
                 /\ err.msg \in {<<"xbrl: document is nil">>, <<"xbrl: fact is nil">>}
           /\ unmet = "document" => err = Errorf("xbrl: document is nil")
           /\ unmet = "fact" => err = Errorf("xbrl: fact is nil")
           /\ unmet = "nil" => err = ErrInvalidValue
           /\ err.is = "" <=> unmet \in {"document", "fact"}

\* an integer conversion that failed on the lexical form of the value, and
\* so with the sentinel a nil-flagged fact fails with
C9_Witness ==
    /\ query.op = "AsInt64" /\ query.out.err.is = "ErrInvalidValue"
    /\ query.out.err # ErrInvalidValue
    /\ query.f # <<>> /\ ~query.f[1].nil

-----------------------------------------------------------------------------
(* C10: for a present, non-nil fact whose concept is numeric or monetary,  *)
(* AsInt64 returns n exactly when the trimmed value is an optionally       *)
(* signed base-10 integer in the signed 64-bit range, n being that         *)
(* integer; every other value fails with the invalid-lexical-form sentinel *)
(* and returns 0.                                                          *)
C10_AsInt64Lexical ==
    (/\ query.op = "AsInt64"
     /\ query.d # <<>> /\ query.f # <<>>
     /\ query.d[1].taxonomy # <<>> /\ ~query.f[1].nil
     /\ \E c \in NamedConcepts(query.d, query.f) :
           ValueKind(<<c>>) \in {"numeric", "monetary"})
    => LET t == TrimSpace(query.f[1].value) IN
       IF IsInt64Lexical(t)
       THEN query.out = Out(IntegerOf(t), NoError)
       ELSE query.out.val = Zero /\ query.out.err.is = "ErrInvalidValue"

-----------------------------------------------------------------------------
(* C11: for a present, non-nil fact whose concept kind is boolean, AsBool  *)
(* returns true for the trimmed, case-insensitive forms "true" and "1",    *)
(* false without error for "false" and "0", and the invalid-lexical-form   *)
(* failure for every other form.                                           *)
C11_AsBoolLexical ==
    (/\ query.op = "AsBool"
     /\ query.d # <<>> /\ query.f # <<>>
     /\ query.d[1].taxonomy # <<>> /\ ~query.f[1].nil
     /\ \E c \in NamedConcepts(query.d, query.f) : ValueKind(<<c>>) = "boolean")
    => LET t == ToLower(TrimSpace(query.f[1].value)) IN
       IF t \in {<<"t", "r", "u", "e">>, <<"1">>}
       THEN query.out = Out(TRUE, NoError)
       ELSE IF t \in {<<"f", "a", "l", "s", "e">>, <<"0">>}
       THEN query.out = Out(FALSE, NoError)
       ELSE query.out = Out(FALSE, ErrInvalidValue)

-----------------------------------------------------------------------------
(* The two tables of type names, by namespace: the XBRL-instance item      *)
(* types and the XML-Schema primitives, each name with its kind.           *)

ItemTypeKinds ==
    ({"monetaryItemType"} \X {"monetary"}) \cup
    ({"sharesItemType", "perShareItemType", "decimalItemType", "integerItemType",
      "nonNegativeIntegerItemType", "nonPositiveIntegerItemType",
      "positiveIntegerItemType", "negativeIntegerItemType", "pureItemType",
      "fractionItemType"} \X {"numeric"}) \cup
    ({"booleanItemType"} \X {"boolean"}) \cup ({"dateItemType"} \X {"date"}) \cup
    ({"dateTimeItemType"} \X {"dateTime"}) \cup ({"stringItemType"} \X {"string"})

PrimitiveKinds ==
    ({"decimal", "integer", "nonNegativeInteger", "nonPositiveInteger",
      "positiveInteger", "negativeInteger", "int", "long", "short", "byte",
      "unsignedInt", "unsignedLong", "unsignedShort", "unsignedByte", "float",
      "double"} \X {"numeric"}) \cup
    ({"boolean"} \X {"boolean"}) \cup ({"date"} \X {"date"}) \cup
    ({"dateTime"} \X {"dateTime"}) \cup ({"string", "normalizedString"} \X {"string"})

TableOf(uri) ==
    IF uri = "http://www.xbrl.org/2003/instance" THEN ItemTypeKinds
    ELSE IF uri = "http://www.w3.org/2001/XMLSchema" THEN PrimitiveKinds
    ELSE {}

KindOf(uri, local) ==
    IF \E e \in TableOf(uri) : e[1] = local
    THEN (CHOOSE e \in TableOf(uri) : e[1] = local)[2]
    ELSE "string"

(* C12: Concept.ValueKind is a total classification by the namespace URI   *)
(* and the local name of the type: a name listed in the table of its       *)
(* namespace has the kind listed there, every other name in either known   *)
(* namespace and every type of another or of the empty namespace is a      *)
(* string; a present Concept is never unknown, and an absent Concept is    *)
(* always unknown.                                                         *)
C12_ValueKindTotal ==
    query.op = "ValueKind" =>
        IF query.c = <<>> THEN query.out = "unknown"
        ELSE LET t == query.c[1].typeName IN
             /\ query.out \in {"string", "numeric", "monetary", "boolean", "date",
                               "dateTime"}
             /\ query.out = KindOf(t.uri, t.local)

\* a name of the XML-Schema table asked about in the XBRL-instance
\* namespace, and a listed name asked about in a namespace of neither table
C12_Witness ==
    /\ query.op = "ValueKind" /\ query.c # <<>> /\ query.out = "string"
    /\ \/ /\ query.c[1].typeName.uri = "http://www.xbrl.org/2003/instance"
          /\ query.c[1].typeName.local = "integer"
       \/ /\ query.c[1].typeName.uri = "http://example.com"
          /\ query.c[1].typeName.local = "monetaryItemType"

-----------------------------------------------------------------------------
(* FactFilter and its builder methods.  A *FactFilter is an address in     *)
(* filters, 0 for nil; a builder method takes the heap h and the receiver  *)
(* f and gives the heap it leaves and the pointer it returns.              *)

NewFactFilter ==
    [conceptURI |-> "", conceptLocal |-> "", contextID |-> "", unitID |-> "",
     nilFilter |-> <<>>, dims |-> <<>>]

Returned(h, ret) == [heap |-> h, ret |-> ret]

ConceptURI(h, f, uri) ==
    IF f = 0 THEN Returned(h, 0) ELSE Returned([h EXCEPT ![f].conceptURI = uri], f)

\* a ConceptLocal that allocates a filter when it is called on nil
ConceptLocalAlloc(h, f, local) ==
    IF f = 0
    THEN Returned(Append(h, [NewFactFilter EXCEPT !.conceptLocal = local]), Len(h) + 1)
    ELSE Returned([h EXCEPT ![f].conceptLocal = local], f)

ConceptLocal(h, f, local) ==
    IF f = 0 THEN Returned(h, 0) ELSE Returned([h EXCEPT ![f].conceptLocal = local], f)

ContextID(h, f, id) ==
    IF f = 0 THEN Returned(h, 0) ELSE Returned([h EXCEPT ![f].contextID = id], f)

\* a setter that takes "" for no call at all
UnitIDKeep(h, f, id) ==
    IF f = 0 \/ id = "" THEN Returned(h, f) ELSE Returned([h EXCEPT ![f].unitID = id], f)

UnitID(h, f, id) ==
    IF f = 0 THEN Returned(h, 0) ELSE Returned([h EXCEPT ![f].unitID = id], f)

\* a builder that leaves a nil filter already set as it is
OnlyNilKeep(h, f) ==
    IF f = 0 THEN Returned(h, 0)
    ELSE IF h[f].nilFilter # <<>> THEN Returned(h, f)
    ELSE Returned([h EXCEPT ![f].nilFilter = <<TRUE>>], f)

OnlyNil(h, f) ==
    IF f = 0 THEN Returned(h, 0) ELSE Returned([h EXCEPT ![f].nilFilter = <<TRUE>>], f)

ExcludeNil(h, f) ==
    IF f = 0 THEN Returned(h, 0) ELSE Returned([h EXCEPT ![f].nilFilter = <<FALSE>>], f)

dimensionFilter(dim, member) ==
    [dimURI |-> dim.uri, dimLocal |-> dim.local,
     memURI |-> member.uri, memLocal |-> member.local]

Dimension(h, f, dim, member) ==
    IF f = 0 THEN Returned(h, 0)
    ELSE Returned([h EXCEPT ![f].dims = Append(@, dimensionFilter(dim, member))], f)

-----------------------------------------------------------------------------
(* Document.FilterFacts.  d is a *Document and f a *FactFilter that has    *)
(* been dereferenced: <<>> for nil.  The result is a slice: absent for nil *)

NilSlice == [absent |-> TRUE, facts |-> <<>>]
Slice(facts) == [absent |-> FALSE, facts |-> facts]

\* the concept filter
ConceptFilter(f, fact) ==
    (f.conceptLocal # "" \/ f.conceptURI # "") =>
        /\ ~(f.conceptLocal # "" /\ fact.name.local # f.conceptLocal)
        /\ ~(f.conceptURI # "" /\ fact.name.uri # f.conceptURI)

\* a requirement met by a dimension of any kind
DimensionFoundAnyKind(ctxDims, df) ==
    \E i \in DOMAIN ctxDims :
        /\ ctxDims[i].dimension.uri = df.dimURI
        /\ ctxDims[i].dimension.local = df.dimLocal
        /\ ctxDims[i].member.uri = df.memURI
        /\ ctxDims[i].member.local = df.memLocal

\* the inner loop of the dimension filters: found
DimensionFound(ctxDims, df) ==
    \E i \in DOMAIN ctxDims :
        /\ ctxDims[i].explicit
        /\ ctxDims[i].dimension.uri = df.dimURI
        /\ ctxDims[i].dimension.local = df.dimLocal
        /\ ctxDims[i].member.uri = df.memURI
        /\ ctxDims[i].member.local = df.memLocal

\* the dimension filters: the context is looked up only when there are any
DimensionFilters(d, f, fact) ==
    Len(f.dims) > 0 =>
        /\ fact.contextRef \in DOMAIN d.contexts
        /\ \A k \in DOMAIN f.dims :
              DimensionFound(d.contexts[fact.contextRef].dimensions, f.dims[k])

\* a loop body that takes the concept filter as met when either half is
KeepsEitherConcept(d, f, fact) ==
    /\ \/ f.conceptLocal = "" \/ f.conceptURI = ""
       \/ fact.name.local = f.conceptLocal \/ fact.name.uri = f.conceptURI
    /\ ~(f.contextID # "" /\ fact.contextRef # f.contextID)
    /\ ~(f.unitID # "" /\ fact.unitRef # f.unitID)
    /\ ~(f.nilFilter # <<>> /\ fact.nil # f.nilFilter[1])
    /\ DimensionFilters(d, f, fact)

\* the loop body: the fact reaches the append
Keeps(d, f, fact) ==
    /\ ConceptFilter(f, fact)
    /\ ~(f.contextID # "" /\ fact.contextRef # f.contextID)
    /\ ~(f.unitID # "" /\ fact.unitRef # f.unitID)
    /\ ~(f.nilFilter # <<>> /\ fact.nil # f.nilFilter[1])
    /\ DimensionFilters(d, f, fact)

FilterFacts(d, f) ==
    IF d = <<>> \/ f = <<>> THEN NilSlice
    ELSE Slice(SelectSeq(d[1].facts, LAMBDA fact : Keeps(d[1], f[1], fact)))

-----------------------------------------------------------------------------
(* The documents FilterFacts is called on, built as the tests build them,  *)
(* and the arguments the builder methods are called with.  The dimension   *)
(* Dim has the members M1 and M2; the contexts write them with prefixes d  *)
(* and m, the filters with prefix x or with none.                          *)

MaxDims == 2

NewDimension(dim, explicit, member, typedValue) ==
    [dimension |-> dim, explicit |-> explicit, member |-> member,
     typedValue |-> typedValue]

Explicit(memLocal) ==
    NewDimension(QName("d", "Dim", "ud"), TRUE, QName("m", memLocal, "um"), "")

\* a typed member as Parse stores it, and one a test gave a member
TypedDim == NewDimension(QName("d", "Dim", "ud"), FALSE, QName("", "", ""), "<v>1</v>")
TypedDimM1 == NewDimension(QName("d", "Dim", "ud"), FALSE, QName("m", "M1", "um"), "v")

FilterContext(id, dims) ==
    [id |-> id, entity |-> EmptyEntity, period |-> EmptyPeriod, dimensions |-> dims]

FilterContexts ==
    [id \in {"C0", "C1", "C2", "C3", "CT", "CM", "CE"} |->
        FilterContext(id,
            CASE id = "C0" -> <<>>
              [] id = "C1" -> <<Explicit("M1")>>
              [] id = "C2" -> <<Explicit("M2")>>
              [] id = "C3" -> <<Explicit("M1"), Explicit("M2")>>
              [] id = "CT" -> <<TypedDim>>
              [] id = "CM" -> <<TypedDimM1, Explicit("M2")>>
              [] id = "CE" -> <<NewDimension(QName("d", "Dim", "ue"), TRUE,
                                             QName("m", "M1", "um"), "")>>)]

FilterFact(name, contextRef, unitRef, id, nil) ==
    [NewFact(name, <<"1">>, nil)
       EXCEPT !.contextRef = contextRef, !.unitRef = unitRef, !.id = id]

\* the first fact is in the list twice; the context CX is not in the document
FilterFactList ==
    <<FilterFact(QName("a", "Rev", "ua"), "C1", "U1", "f1", FALSE),
      FilterFact(QName("a", "Rev", "ua"), "C2", "", "f2", TRUE),
      FilterFact(QName("b", "Cost", "ub"), "C3", "U1", "f3", FALSE),
      FilterFact(QName("a", "Cost", "ua"), "CT", "U2", "f4", FALSE),
      FilterFact(QName("a", "Rev", "ua"), "C1", "U1", "f1", FALSE),
      FilterFact(QName("b", "Rev", "ub"), "CX", "U1", "f5", FALSE),
      FilterFact(QName("a", "Cost", "ua"), "CM", "", "f6", TRUE),
      FilterFact(QName("b", "Cost", "ub"), "CE", "U1", "f7", FALSE),
      FilterFact(QName("a", "Rev", "ua"), "C0", "U2", "f8", FALSE),
      FilterFact(QName("b", "Rev", "ub"), "C3", "", "f9", TRUE)>>

FilterDocument ==
    [NewDocument EXCEPT !.contexts = FilterContexts, !.facts = FilterFactList]

FilterDocuments == {<<>>, <<NewDocument>>, <<FilterDocument>>}

URIArgs == {"", "ua"}
LocalArgs == {"", "Rev"}
ContextArgs == {"", "C3"}
UnitArgs == {"", "U1"}

DimensionArgs ==
    {<<QName("x", "Dim", "ud"), QName("x", "M1", "um")>>,
     <<QName("", "Dim", "ud"), QName("", "M2", "um")>>,
     <<QName("d", "Dim", "ud"), QName("", "", "")>>}

-----------------------------------------------------------------------------
(* A program that allocates a filter, calls builder methods on the         *)
(* pointers it holds, and filters documents with it.  calls keeps, for     *)
(* each filter, the argument of the last call of each setter, the pairs of *)
(* all Dimension calls, and whether the last UnitID call put "" in the     *)
(* place of a unit id.                                                     *)

NoCalls ==
    [ConceptURI |-> <<>>, ConceptLocal |-> <<>>, ContextID |-> <<>>, UnitID |-> <<>>,
     nil |-> <<>>, Dimension |-> <<>>, unitReset |-> FALSE]

\* the pointers the program holds: nil, and what NewFactFilter returned
\* and the builder methods returned
Held == 0..Len(filters)

Deref(h, f) == IF f = 0 THEN <<>> ELSE <<h[f]>>

Built(op, f, r) == [op |-> op, recv |-> f, ret |-> r.ret]

Unparsed == UNCHANGED <<input, pos, nsStack, stack, doc, result, failAt, resolved, load, threads>>

CallNewFactFilter ==
    /\ filters = <<>>
    /\ filters' = Append(filters, NewFactFilter)
    /\ calls' = Append(calls, NoCalls)
    /\ query' = [op |-> "NewFactFilter", recv |-> 0, ret |-> Len(filters) + 1]
    /\ Unparsed

CallConceptURI ==
    /\ \E f \in Held, uri \in URIArgs :
          LET r == ConceptURI(filters, f, uri) IN
          /\ filters' = r.heap
          /\ calls' = IF f = 0 THEN calls ELSE [calls EXCEPT ![f].ConceptURI = <<uri>>]
          /\ query' = Built("ConceptURI", f, r)
    /\ Unparsed

CallConceptLocal ==
    /\ \E f \in Held, local \in LocalArgs :
          LET r == ConceptLocal(filters, f, local) IN
          /\ filters' = r.heap
          /\ calls' = IF f = 0 THEN calls ELSE [calls EXCEPT ![f].ConceptLocal = <<local>>]
          /\ query' = Built("ConceptLocal", f, r)
    /\ Unparsed

CallContextID ==
    /\ \E f \in Held, id \in ContextArgs :
          LET r == ContextID(filters, f, id) IN
          /\ filters' = r.heap
          /\ calls' = IF f = 0 THEN calls ELSE [calls EXCEPT ![f].ContextID = <<id>>]
          /\ query' = Built("ContextID", f, r)
    /\ Unparsed

CallUnitID ==
    /\ \E f \in Held, id \in UnitArgs :
          LET r == UnitID(filters, f, id) IN
          /\ filters' = r.heap
          /\ calls' = IF f = 0 THEN calls
                      ELSE [calls EXCEPT ![f].UnitID = <<id>>,
                                         ![f].unitReset = id = "" /\ filters[f].unitID # ""]
          /\ query' = Built("UnitID", f, r)
    /\ Unparsed

CallOnlyNil ==
    /\ \E f \in Held :
          LET r == OnlyNil(filters, f) IN
          /\ filters' = r.heap
          /\ calls' = IF f = 0 THEN calls ELSE [calls EXCEPT ![f].nil = <<"OnlyNil">>]
          /\ query' = Built("OnlyNil", f, r)
    /\ Unparsed

CallExcludeNil ==
    /\ \E f \in Held :
          LET r == ExcludeNil(filters, f) IN
          /\ filters' = r.heap
          /\ calls' = IF f = 0 THEN calls ELSE [calls EXCEPT ![f].nil = <<"ExcludeNil">>]
          /\ query' = Built("ExcludeNil", f, r)
    /\ Unparsed

CallDimension ==
    /\ \E f \in Held, a \in DimensionArgs :
          /\ f # 0 => Len(calls[f].Dimension) < MaxDims
          /\ LET r == Dimension(filters, f, a[1], a[2]) IN
             /\ filters' = r.heap
             /\ calls' = IF f = 0 THEN calls
                         ELSE [calls EXCEPT ![f].Dimension = Append(@, a)]
             /\ query' = Built("Dimension", f, r)
    /\ Unparsed

CallFilterFacts ==
    /\ \E f \in Held, d \in FilterDocuments :
          query' = [op |-> "FilterFacts", d |-> d, f |-> Deref(filters, f),
                    out |-> FilterFacts(d, Deref(filters, f))]
    /\ UNCHANGED <<filters, calls>>
    /\ Unparsed

InitFilter ==
    /\ input = <<>>
    /\ pos = 1
    /\ nsStack = newNamespaceStack
    /\ stack = <<>>
    /\ doc = NewDocument
    /\ result = NoResult
    /\ failAt = -1
    /\ resolved = {}
    /\ query = NoQuery
    /\ filters = <<>>
    /\ calls = <<>>
    /\ load = NoLoad
    /\ threads = NoThreads

NextFilter ==
    \/ CallNewFactFilter
    \/ CallConceptURI \/ CallConceptLocal \/ CallContextID \/ CallUnitID
    \/ CallOnlyNil \/ CallExcludeNil \/ CallDimension
    \/ CallFilterFacts

SpecFilter == InitFilter /\ [][NextFilter]_vars

-----------------------------------------------------------------------------
(* What a filter asks of a fact, read off the filter and the document *)

IsFilterCall == query.op = "FilterFacts" /\ query.d # <<>> /\ query.f # <<>>

\* the required pair is met by an Explicit dimension of the context
MeetsPair(ctx, pair) ==
    \E dim \in Range(ctx.dimensions) :
        /\ dim.explicit
        /\ dim.dimension.uri = pair.dimURI /\ dim.dimension.local = pair.dimLocal
        /\ dim.member.uri = pair.memURI /\ dim.member.local = pair.memLocal

\* the contexts of the document that meet every required pair
MeetingContexts(d, pairs) ==
    {id \in DOMAIN d.contexts : \A pair \in Range(pairs) : MeetsPair(d.contexts[id], pair)}

PredicatesHold(d, flt, fact) ==
    /\ flt.conceptLocal # "" => fact.name.local = flt.conceptLocal
    /\ flt.conceptURI # "" => fact.name.uri = flt.conceptURI
    /\ flt.contextID # "" => fact.contextRef = flt.contextID
    /\ flt.unitID # "" => fact.unitRef = flt.unitID
    /\ flt.nilFilter # <<>> => fact.nil = flt.nilFilter[1]
    /\ flt.dims # <<>> => fact.contextRef \in MeetingContexts(d, flt.dims)

\* the facts at the positions S of the list, in the order of the list
FactsAt(facts, S) == [k \in 1..Cardinality(S) |-> facts[InOrder(S)[k]]]

(* C13: FilterFacts on a Document returns exactly the facts for which      *)
(* every predicate set on the filter holds, in the Document's fact order   *)
(* and with duplicates kept; an empty filter returns all facts, and a      *)
(* filter matching nothing returns an empty sequence that is not absent.   *)
C13_FilterKeepsMatching ==
    IsFilterCall =>
        LET d == query.d[1]
            flt == query.f[1]
        IN /\ ~query.out.absent
           /\ query.out.facts =
                FactsAt(d.facts, {i \in DOMAIN d.facts : PredicatesHold(d, flt, d.facts[i])})
           /\ flt = NewFactFilter => query.out.facts = d.facts

\* a filter on concept name and namespace that keeps both copies of the
\* fact listed twice and drops other facts
C13_Witness ==
    /\ IsFilterCall
    /\ query.f[1].conceptLocal = "Rev" /\ query.f[1].conceptURI = "ua"
    /\ query.f[1].unitID = "U1"
    /\ Len(query.out.facts) = 2 /\ query.out.facts[1] = query.out.facts[2]
    /\ Len(query.d[1].facts) > 2

-----------------------------------------------------------------------------
(* C14: with one or more required pairs and no other predicate, a fact     *)
(* passes iff its contextRef names a context of the Document that has, for *)
(* every pair, an Explicit dimension matching dimension and member by URI  *)
(* and local name; a Typed dimension satisfies no requirement and a fact   *)
(* whose context is not in the Document passes none.  With C1 = (D, M1),   *)
(* C2 = (D, M2), C3 = (D, M1) + (D, M2), requiring (D, M1) keeps the facts *)
(* on C1 and C3 and requiring both keeps the facts on C3.                  *)
C14_DimensionRequirements ==
    (/\ IsFilterCall
     /\ query.f[1].dims # <<>>
     /\ [query.f[1] EXCEPT !.dims = <<>>] = NewFactFilter)
    => LET d == query.d[1]
           pairs == query.f[1].dims
           ctxs == {query.out.facts[i].contextRef : i \in DOMAIN query.out.facts}
           asked == {<<pairs[k].dimLocal, pairs[k].memLocal>> : k \in DOMAIN pairs}
       IN /\ query.out.facts =
               FactsAt(d.facts, {i \in DOMAIN d.facts :
                                   d.facts[i].contextRef \in MeetingContexts(d, pairs)})
          /\ \A id \in ctxs :
                /\ id \in DOMAIN d.contexts
                /\ \A pair \in Range(pairs) :
                      \E dim \in Range(d.contexts[id].dimensions) :
                          dim.explicit /\ dim.member.local = pair.memLocal
          /\ d = FilterDocument =>
                /\ asked = {<<"Dim", "M1">>} => ctxs = {"C1", "C3"}
                /\ asked = {<<"Dim", "M1">>, <<"Dim", "M2">>} => ctxs = {"C3"}
                /\ <<"Dim", "">> \in asked => ctxs = {}

\* both members required, written with other prefixes than the contexts
\* use: the facts on C3 are kept, the one on the Typed dimension with
\* member M1 and Explicit M2 is not
C14_Witness ==
    /\ IsFilterCall /\ query.d = <<FilterDocument>>
    /\ Len(query.f[1].dims) = 2
    /\ {query.f[1].dims[k].memLocal : k \in 1..2} = {"M1", "M2"}
    /\ [query.f[1] EXCEPT !.dims = <<>>] = NewFactFilter
    /\ Len(query.out.facts) = 2
    /\ \A i \in 1..2 : query.out.facts[i].contextRef = "C3"

-----------------------------------------------------------------------------
(* C15: a builder call records its predicate on the filter it is called on *)
(* and returns that filter, so a filter holds, for concept URI, concept    *)
(* local name, context id, unit id and the nil filter, the value of the    *)
(* last call only, and one required pair for every Dimension call, in the  *)
(* order of the calls; calls made on what the builder methods returned     *)
(* configure the one filter NewFactFilter allocated.                       *)
LastOr(c, unset) == IF c = <<>> THEN unset ELSE c[1]

C15_LastCallWins ==
    /\ Len(filters) <= 1
    /\ query.op \in {"ConceptURI", "ConceptLocal", "ContextID", "UnitID", "OnlyNil",
                     "ExcludeNil", "Dimension"} => query.ret = query.recv
    /\ \A f \in DOMAIN filters :
          /\ filters[f].conceptURI = LastOr(calls[f].ConceptURI, "")
          /\ filters[f].conceptLocal = LastOr(calls[f].ConceptLocal, "")
          /\ filters[f].contextID = LastOr(calls[f].ContextID, "")
          /\ filters[f].unitID = LastOr(calls[f].UnitID, "")
          /\ filters[f].nilFilter =
                (CASE calls[f].nil = <<>> -> <<>>
                   [] calls[f].nil = <<"OnlyNil">> -> <<TRUE>>
                   [] calls[f].nil = <<"ExcludeNil">> -> <<FALSE>>)
          /\ filters[f].dims =
                [k \in DOMAIN calls[f].Dimension |->
                    dimensionFilter(calls[f].Dimension[k][1], calls[f].Dimension[k][2])]

\* ExcludeNil called on a filter that had OnlyNil and two required pairs
C15_Witness ==
    /\ query.op = "ExcludeNil" /\ query.recv = 1 /\ query.ret = 1
    /\ Len(filters[1].dims) = 2
    /\ filters[1].nilFilter = <<FALSE>>
    /\ filters[1].conceptURI = "ua"

-----------------------------------------------------------------------------
(* What Merge is specified to do.  Two keys are the same QName when they   *)
(* agree on uri and local name.                                            *)

SameQName(k, q) == k.uri = q.uri /\ k.local = q.local

HasQName(m, q) == \E k \in DOMAIN m : SameQName(k, q)

(* C16: after dst.Merge(src) with both present, dst maps every QName of    *)
(* src to src's Concept, keeps its own Concept for every QName not in src  *)
(* and has no other entry; src is unchanged; a dst without a map gets one  *)
(* and receives the entries of src; with src or dst absent nothing         *)
(* changes; merging the same src once more changes nothing.                *)
C16_MergeSourceWins ==
    query.op = "Merge" =>
        IF query.t = 0 \/ query.other = 0 THEN query.after = query.before
        ELSE LET dst == query.before[query.t].concepts
                 src == query.before[query.other].concepts
                 out == query.after[query.t].concepts
             IN /\ \A q \in DOMAIN src :
                      /\ HasQName(out, q)
                      /\ \A k \in DOMAIN out : SameQName(k, q) => out[k] = src[q]
                /\ \A k \in DOMAIN dst :
                      ~HasQName(src, k) => k \in DOMAIN out /\ out[k] = dst[k]
                /\ \A k \in DOMAIN out : HasQName(src, k) \/ HasQName(dst, k)
                /\ query.after[query.t].made
                /\ query.after[query.other] =
                      (IF query.other = query.t THEN query.after[query.t]
                       ELSE query.before[query.other])
                /\ query.again = query.after

-----------------------------------------------------------------------------
(* What a schema declares, read off the input alone *)

\* the element declarations that are not below another element declaration
Declarations(in) ==
    {s \in StartElements(in) :
        /\ in[s].local = "element"
        /\ \A i \in DOMAIN Ancestors(in, s) : in[Ancestors(in, s)[i]].local # "element"}

\* the target namespace recorded when the start element at s is read
TargetBefore(in, s) ==
    LET roots == {r \in 1..(s - 1) : /\ in[r].k = "S" /\ in[r].local = "schema"
                                     /\ hasAttr(in[r].attrs, "targetNamespace")}
    IN IF roots = {} THEN ""
       ELSE Str(TrimSpace(AttrFirst(in[CHOOSE r \in roots : \A o \in roots : o <= r].attrs,
                                    "targetNamespace")))

DeclaredName(se) == Str(TrimSpace(AttrLast(se.attrs, "name")))

\* the declarations that register a Concept
Registering(in) ==
    {s \in Declarations(in) : DeclaredName(in[s]) # "" /\ TargetBefore(in, s) # ""}

Declares(in, s, k) == k.uri = TargetBefore(in, s) /\ k.local = DeclaredName(in[s])

(* C17: ParseTaxonomy registers a Concept for an element declaration       *)
(* exactly when the declaration has a non-empty name and the target        *)
(* namespace recorded so far is not empty; the Concept's QName is the      *)
(* target namespace with the name; a declaration below an element          *)
(* declaration is not registered; and a QName declared more than once is   *)
(* in the registry once, with the last declaration.                        *)
C17_RegistersDeclarations ==
    IsTaxonomy(result) =>
        LET m == result.val[1].concepts
            regs == Registering(input)
        IN /\ \A s \in regs : \E k \in DOMAIN m : Declares(input, s, k)
           /\ \A k \in DOMAIN m :
                 /\ m[k].qname = k
                 /\ \E s \in regs :
                       /\ Declares(input, s, k)
                       /\ \A o \in regs : Declares(input, o, k) => o <= s
                       /\ m[k].id = Str(TrimSpace(AttrLast(input[s].attrs, "id")))
           /\ \A k \in DOMAIN m, o \in DOMAIN m : SameQName(k, o) => k = o

-----------------------------------------------------------------------------
(* C18: the lexer of the abstract and nillable attributes and AsBool take  *)
(* the same forms for true: after trimming, "true" in any letter case and  *)
(* "1", and nothing else; "false", "0", "yes" and "no" are never true, and *)
(* for abstract and nillable every other form and an absent attribute are  *)
(* false.                                                                  *)
IsTrueForm(v) == ToLower(TrimSpace(v)) \in {<<"t", "r", "u", "e">>, <<"1">>}

C18_SameTruth ==
    query.op = "parseBool" =>
        LET truth == query.attr # <<>> /\ IsTrueForm(query.attr[1]) IN
        /\ query.abstract = truth
        /\ query.nillable = truth
        /\ query.asBool.val = truth
        /\ truth => query.asBool.err = NoError
        /\ (query.attr # <<>> /\
            ToLower(TrimSpace(query.attr[1])) \in
               {<<"f", "a", "l", "s", "e">>, <<"0">>, <<"y", "e", "s">>, <<"n", "o">>})
           => ~query.abstract /\ ~query.nillable /\ ~query.asBool.val

\* "yes" as the attribute and as the fact's value: false for both, and an
\* error only from AsBool
C18_Witness ==
    /\ query.op = "parseBool" /\ query.attr = <<<<"y", "e", "s">>>>
    /\ ~query.abstract /\ ~query.asBool.val
    /\ query.asBool.err = ErrInvalidValue

-----------------------------------------------------------------------------
(* Document.LoadTaxonomyFromSchemaRefs.  load.d is the *Document and       *)
(* load.opener the opener, <<>> for nil; an opener is a function from href *)
(* to what it returns.  Every schema it opens is parsed by ParseTaxonomy,  *)
(* token by token, on the decoder and stack of the model.                  *)

MaxRefs == 2

OpenError(msg) == [err |-> <<msg>>, content |-> <<>>]
Reader(content) == [err |-> NoErr, content |-> content]

\* a.xsd binds the target namespace to t, b.xsd makes it the default
\* namespace, c.xsd binds it to t again; all three declare Rev
OpenerOfTest ==
    [href \in {"a.xsd", "b.xsd", "c.xsd", "empty.xsd", "broken.xsd"} |->
        CASE href = "a.xsd" ->
                Reader(<<SchemaRootPrefixed>> \o DeclRev \o DeclFlag \o <<En("schema")>>)
          [] href = "b.xsd" ->
                Reader(<<SchemaRootDefault>> \o DeclGrouped \o DeclRevAgain
                         \o <<En("schema")>>)
          [] href = "c.xsd" ->
                Reader(<<SchemaRootPrefixed>> \o DeclRevAgain \o <<En("schema")>>)
          [] href = "empty.xsd" -> Reader(<<>>)
          [] href = "broken.xsd" -> OpenError("open failed")]

Openers == {<<>>, <<OpenerOfTest>>}

NewSchemaRef(href) == [href |-> href]

LoadDocuments ==
    {<<>>} \cup
    {<<[NewDocument EXCEPT !.schemaRefs = [i \in DOMAIN hrefs |-> NewSchemaRef(hrefs[i])],
                           !.taxonomy = t]>> :
        hrefs \in UNION {[1..n -> DOMAIN OpenerOfTest \cup {""}] : n \in 0..MaxRefs},
        t \in {<<>>, <<TypedTaxonomy>>}}

Loading(at) == load.at = at

LoadReturn(val, err) == [val |-> val, err |-> err]

NoReturn == LoadReturn(<<>>, NoErr)

\* the guards, and tax := NewTaxonomy()
LoadCall ==
    /\ Loading("call")
    /\ load' =
          IF load.d = <<>>
          THEN [load EXCEPT !.at = "done",
                            !.ret = LoadReturn(<<>>, <<"xbrl: document is nil">>)]
          ELSE IF load.opener = <<>>
          THEN [load EXCEPT !.at = "done",
                            !.ret = LoadReturn(<<>>, <<"xbrl: opener is nil">>)]
          ELSE [load EXCEPT !.at = "loop", !.tax = NewTaxonomy, !.i = 1]
    /\ UNCHANGED <<input, pos, nsStack, stack, doc, result, failAt, resolved, query,
                   filters, calls, threads>>

LoadHref == load.d[1].schemaRefs[load.i].href

LoadMore == Loading("loop") /\ load.i <= Len(load.d[1].schemaRefs)

\* `if href == "" { continue }`
LoadSkipEmpty ==
    /\ LoadMore /\ LoadHref = ""
    /\ load' = [load EXCEPT !.i = @ + 1]
    /\ UNCHANGED <<input, pos, nsStack, stack, doc, result, failAt, resolved, query,
                   filters, calls, threads>>

LoadOpenError ==
    /\ LoadMore /\ LoadHref # ""
    /\ load.opener[1][LoadHref].err # NoErr
    /\ load' = [load EXCEPT
                  !.at = "done",
                  !.opened = Append(@, LoadHref),
                  !.ret = LoadReturn(<<>>, <<"xbrl:", "open schemaRef", LoadHref>>
                                             \o load.opener[1][LoadHref].err)]
    /\ UNCHANGED <<input, pos, nsStack, stack, doc, result, failAt, resolved, query,
                   filters, calls, threads>>

\* the opener gave a reader: ParseTaxonomy starts on it
LoadOpen ==
    /\ LoadMore /\ LoadHref # ""
    /\ load.opener[1][LoadHref].err = NoErr
    /\ load' = [load EXCEPT !.at = "parse", !.opened = Append(@, LoadHref)]
    /\ input' = load.opener[1][LoadHref].content
    /\ pos' = 1
    /\ nsStack' = newNamespaceStack
    /\ stack' = <<Frame("ParseTaxonomy", "", [targetNS |-> "", tax |-> NewTaxonomy])>>
    /\ result' = NoResult
    /\ failAt' = -1
    /\ UNCHANGED <<doc, resolved, query, filters, calls, threads>>

LoadParseError ==
    /\ Loading("parse") /\ result.done /\ result.err # NoErr
    /\ load' = [load EXCEPT
                  !.at = "done",
                  !.ret = LoadReturn(<<>>, <<"xbrl:", "parse schemaRef", LoadHref>>
                                             \o result.err)]
    /\ result' = NoResult
    /\ UNCHANGED <<input, pos, nsStack, stack, doc, failAt, resolved, query,
                   filters, calls, threads>>

\* tax.Merge(t)
LoadMerge ==
    /\ Loading("parse") /\ result.done /\ result.err = NoErr
    /\ load' = [load EXCEPT !.at = "loop", !.i = @ + 1,
                            !.tax = Merge(<<@, result.val[1]>>, 1, 2)[1],
                            !.parsed = Append(@, result.val[1])]
    /\ result' = NoResult
    /\ UNCHANGED <<input, pos, nsStack, stack, doc, failAt, resolved, query,
                   filters, calls, threads>>

\* `d.taxonomy = tax; return tax, nil`
LoadFinish ==
    /\ Loading("loop") /\ load.i > Len(load.d[1].schemaRefs)
    /\ load' = [load EXCEPT !.at = "done", !.d[1].taxonomy = <<load.tax>>,
                            !.ret = LoadReturn(<<load.tax>>, NoErr)]
    /\ UNCHANGED <<input, pos, nsStack, stack, doc, result, failAt, resolved, query,
                   filters, calls, threads>>

\* before is the Document as it was when the call was made; opened and
\* parsed are what the opener was called with and what ParseTaxonomy gave
InitLoad ==
    /\ input = <<>>
    /\ pos = 1
    /\ nsStack = newNamespaceStack
    /\ stack = <<>>
    /\ doc = NewDocument
    /\ result = NoResult
    /\ failAt = -1
    /\ resolved = {}
    /\ query = NoQuery
    /\ filters = <<>>
    /\ calls = <<>>
    /\ threads = NoThreads
    /\ \E d \in LoadDocuments, opener \in Openers :
          load = [at |-> "call", d |-> d, opener |-> opener, before |-> d, i |-> 0,
                  tax |-> NewTaxonomy, opened |-> <<>>, parsed |-> <<>>,
                  ret |-> NoReturn]

NextLoad ==
    \/ LoadCall \/ LoadSkipEmpty \/ LoadOpenError \/ LoadOpen
    \/ LoadParseError \/ LoadMerge \/ LoadFinish
    \/ TaxTokenError \/ TaxEOF \/ TaxSchema \/ TaxElement \/ TaxElementError
    \/ TaxOtherStart \/ TaxEnd \/ TaxCharData

SpecLoad == InitLoad /\ [][NextLoad]_vars

-----------------------------------------------------------------------------
(* What LoadTaxonomyFromSchemaRefs is specified to do, read off the        *)
(* Document and the opener.                                                *)

Loaded == load.at = "done" /\ load.d # <<>> /\ load.opener # <<>>

\* the hrefs of the Document that are not empty, in order
Hrefs(d) ==
    LET refs == d[1].schemaRefs IN
    FactsAt([i \in DOMAIN refs |-> refs[i].href], {i \in DOMAIN refs : refs[i].href # ""})

IsPrefixOf(a, b) == Len(a) <= Len(b) /\ a = SubSeq(b, 1, Len(a))

\* the merge of the registries ts in order, a later one winning: every
\* QName of every registry is in t, and each entry of t is the Concept of
\* the last registry that has its QName
IsMergeOf(t, ts) ==
    /\ \A j \in DOMAIN ts : \A q \in DOMAIN ts[j].concepts : HasQName(t.concepts, q)
    /\ \A k \in DOMAIN t.concepts :
          \E j \in DOMAIN ts :
              /\ \A o \in DOMAIN ts : HasQName(ts[o].concepts, k) => o <= j
              /\ \E q \in DOMAIN ts[j].concepts :
                    SameQName(q, k) /\ t.concepts[k] = ts[j].concepts[q]

(* C19: LoadTaxonomyFromSchemaRefs gives the opener the non-empty hrefs of *)
(* the Document in order and never an empty one, and stops at the first    *)
(* whose open or parse fails: it then returns an error naming that href    *)
(* and no Taxonomy, and the Taxonomy attached to the Document is the one   *)
(* attached before the call, as it is for an absent opener; on success the *)
(* returned Taxonomy is the merge of all parsed schemas in order, a later  *)
(* one winning, and is the one attached to the Document.                   *)
C19_LoadStopsAtFirstFailure ==
    /\ (load.at # "none" /\ load.d # <<>>) =>
          /\ IsPrefixOf(load.opened, Hrefs(load.d))
          /\ load.ret.err # NoErr => load.d[1].taxonomy = load.before[1].taxonomy
    /\ (load.at = "done" /\ load.opener = <<>>) => load.ret.err # NoErr
    /\ (Loaded /\ load.ret.err # NoErr) =>
          /\ load.ret.val = <<>>
          /\ load.opened # <<>>
          /\ load.opened[Len(load.opened)] \in Range(load.ret.err)
          /\ Len(load.parsed) = Len(load.opened) - 1
    /\ (Loaded /\ load.ret.err = NoErr) =>
          /\ load.opened = Hrefs(load.d)
          /\ Len(load.parsed) = Len(load.opened)
          /\ load.ret.val # <<>>
          /\ IsMergeOf(load.ret.val[1], load.parsed)
          /\ load.d[1].taxonomy = load.ret.val

-----------------------------------------------------------------------------
(* The nil indicator and the exported value, read off the input alone *)

IsLetter(c, lower, upper) == c = lower \/ c = upper

\* the attribute value spells true in some mix of letter cases
SpellsTrue(v) ==
    /\ Len(v) = 4
    /\ IsLetter(v[1], "t", "T") /\ IsLetter(v[2], "r", "R")
    /\ IsLetter(v[3], "u", "U") /\ IsLetter(v[4], "e", "E")

NilFlagged(se) ==
    \E i \in DOMAIN se.attrs :
       /\ se.attrs[i].space = XSI /\ se.attrs[i].local = "nil"
       /\ SpellsTrue(se.attrs[i].value)

\* the characters a JSON string literal stands for
RECURSIVE Unescape(_)
Unescape(s) ==
    IF s = <<>> THEN <<>>
    ELSE IF Head(s) = "\\" /\ Len(s) >= 2
         THEN <<CASE s[2] = "n" -> "\n"
                  [] s[2] = "r" -> "\r"
                  [] s[2] = "t" -> "\t"
                  [] OTHER -> s[2]>> \o Unescape(Tail(Tail(s)))
         ELSE <<Head(s)>> \o Unescape(Tail(s))

IsQuoted(lit) == Len(lit) >= 2 /\ lit[1] = "\"" /\ lit[Len(lit)] = "\""

Unquote(lit) == Unescape(SubSeq(lit, 2, Len(lit) - 1))

Exported == query # NoQuery /\ query.op = "FactsAsJSONDTOs"

-----------------------------------------------------------------------------
(* C20: Parse sets a fact's nil indicator exactly when its element has an  *)
(* attribute in the XML-Schema-instance namespace with local name nil      *)
(* whose value is "true" in any letter case; FactsAsJSONDTOs and           *)
(* EncodeFactsJSON give a nil-flagged fact the value "" and nil = true     *)
(* whatever its text, and give any other fact its value unchanged and      *)
(* nil = false.                                                            *)
C20_NilExport ==
    Parsed =>
        LET facts == result.val[1].facts
            els == FactElements(input)
        IN /\ Len(facts) = Len(els)
           /\ \A i \in DOMAIN els : facts[i].nil <=> NilFlagged(input[els[i]])
           /\ Exported =>
                 LET json == query.written[1].array IN
                 /\ Len(query.out) = Len(els) /\ Len(json) = Len(els)
                 /\ \A i \in DOMAIN els :
                       LET raw == TrimSpace(DecodeText(input, els[i]))
                           lit == json[i].value
                       IN /\ raw = facts[i].value
                          /\ IsQuoted(lit)
                          /\ IF NilFlagged(input[els[i]])
                             THEN /\ query.out[i].Value = <<>> /\ query.out[i].Nil
                                  /\ Unquote(lit) = <<>> /\ json[i].nil = "true"
                             ELSE /\ query.out[i].Value = raw /\ ~query.out[i].Nil
                                  /\ Unquote(lit) = raw /\ json[i].nil = "false"

\* an exported document holding a nil-flagged fact with text beside a fact
\* whose nil attributes do not flag it and whose text needs escaping
C20_Witness ==
    /\ Exported
    /\ LET els == FactElements(input) IN
       /\ \E i \in DOMAIN els :
             /\ NilFlagged(input[els[i]])
             /\ TrimSpace(DecodeText(input, els[i])) # <<>>
             /\ query.out[i].Value = <<>> /\ query.out[i].Nil
       /\ \E i \in DOMAIN els :
             /\ ~NilFlagged(input[els[i]])
             /\ \E a \in DOMAIN input[els[i]].attrs :
                   input[els[i]].attrs[a].local = "nil"
             /\ query.out[i].Value # <<>>
             /\ query.written[1].array[i].value # <<"\"">> \o query.out[i].Value \o <<"\"">>

-----------------------------------------------------------------------------
(* C26: while Parse or ParseTaxonomy runs, the namespace stack holds the   *)
(* base frame and one frame per open element, whichever parser function is *)
(* reading; it never loses the base frame; and it is back at the base      *)
(* frame when the parser returns a result.                                 *)
C26_ResolverInLockstep ==
    /\ Len(nsStack) >= 1
    /\ (~result.done /\ stack # <<>>) =>
          Len(nsStack) = 1 + Nesting(input, 1, pos - 1)
    /\ (result.done /\ result.err = NoErr) => Len(nsStack) = 1

-----------------------------------------------------------------------------
(* The dimension members of a context, read off the input alone *)

IsMemberElement(se) == se.k = "S" /\ se.local \in {"explicitMember", "typedMember"}

\* the element that the start element at s is a child of, 0 when it has none:
\* the last start element before s that the tokens up to s leave open
ParentOf(in, s) ==
    LET open == {j \in 1..(s - 1) : in[j].k = "S" /\ Nesting(in, j, s - 1) >= 1}
    IN IF open = {} THEN 0 ELSE CHOOSE j \in open : \A x \in open : x <= j

\* the element at s is a child of a scenario of the context at c, or a
\* child of a segment of an entity of that context
InContainerOf(in, c, s) ==
    LET p == ParentOf(in, s) IN
    /\ p # 0
    /\ \/ in[p].local = "scenario" /\ ParentOf(in, p) = c
       \/ /\ in[p].local = "segment"
          /\ LET e == ParentOf(in, p) IN
             e # 0 /\ in[e].local = "entity" /\ ParentOf(in, e) = c

MembersOf(in, c) ==
    InOrder({s \in (c + 1)..(MatchEnd(in, c) - 1) :
                IsMemberElement(in[s]) /\ InContainerOf(in, c, s)})

\* what identifies an entry: its kind and the names as written
Written(d) ==
    [explicit |-> d.explicit,
     dimension |-> <<d.dimension.prefix, d.dimension.local>>,
     member |-> <<d.member.prefix, d.member.local>>,
     typedValue |-> d.typedValue]

MemberAsWritten(in, s) ==
    IF in[s].local = "explicitMember"
    THEN Written(parseExplicitMember(in, s, newNamespaceStack))
    ELSE Written(parseTypedMember(in, s, newNamespaceStack))

(* C27: the dimensions of a parsed context are the explicitMember and      *)
(* typedMember children of its entity's segments and of its scenarios, one *)
(* entry each, in document order, however many containers there are and    *)
(* wherever the scenario stands.                                           *)
C27_DimensionsInEncounterOrder ==
    Parsed =>
        LET cs == ContextElements(input)
            ctxs == result.val[1].contexts
        IN \A id \in DOMAIN ctxs :
              LET c == LastWithId(input, cs, id)
                  ms == MembersOf(input, c)
                  dims == ctxs[id].dimensions
              IN /\ Len(dims) = Len(ms)
                 /\ \A i \in DOMAIN ms : Written(dims[i]) = MemberAsWritten(input, ms[i])

\* a parsed context whose scenario stands before its entity, with two
\* segments, and whose members come from all three containers
C27_Witness ==
    /\ Parsed
    /\ \E id \in DOMAIN result.val[1].contexts :
          LET c == LastWithId(input, ContextElements(input), id)
              ms == MembersOf(input, c)
              containers == {ParentOf(input, ms[i]) : i \in DOMAIN ms}
          IN /\ Cardinality(containers) = 3
             /\ \E a, b \in containers :
                   /\ a < b /\ input[a].local = "scenario" /\ input[b].local = "segment"
             /\ Len(result.val[1].contexts[id].dimensions) = 4

-----------------------------------------------------------------------------
(* The three variants of a Period *)

InstantVariant(p) ==
    p.instant # <<>> /\ p.startDate = <<>> /\ p.endDate = <<>> /\ ~p.forever

DurationVariant(p) ==
    p.startDate # <<>> /\ p.endDate # <<>> /\ p.instant = <<>> /\ ~p.forever

ForeverVariant(p) ==
    p.forever /\ p.instant = <<>> /\ p.startDate = <<>> /\ p.endDate = <<>>

(* C28: the Period of every context of a parsed Document is an Instant, a  *)
(* Duration or a Forever, exactly one of them, never empty and never a mix *)
(* of variants; IsInstant and IsForever are never both true of it.         *)
C28_PeriodOneVariant ==
    Parsed =>
        \A id \in DOMAIN result.val[1].contexts :
           LET p == result.val[1].contexts[id].period IN
           /\ InstantVariant(p) \/ DurationVariant(p) \/ ForeverVariant(p)
           /\ ~(IsInstant(p) /\ IsForever(p))

-----------------------------------------------------------------------------
(* C29: parsing is deterministic.  The one place where Parse and           *)
(* ParseTaxonomy can differ between two runs on the same input is the      *)
(* prefix PrefixForURI returns for a fact name or a Concept's QName, which *)
(* goes into the result; so two runs give equal results exactly when, at   *)
(* every such call, one prefix alone can be returned.                      *)
C29_Deterministic ==
    /\ (Running("Parse") /\ HasTok("S") /\ IsOtherElement(Tok) /\ IsItemFact(Tok)) =>
          Cardinality(PrefixesForURI(Push(nsStack, Tok), Tok.space)) = 1
    /\ (Running("ParseTaxonomy") /\ HasTok("S") /\ Tok.local = "element") =>
          \A p1, p2 \in PrefixesForURI(Push(nsStack, Tok), Top.v.targetNS) :
             conceptFromElement(Tok, Top.v.targetNS, Push(nsStack, Tok), p1)
                = conceptFromElement(Tok, Top.v.targetNS, Push(nsStack, Tok), p2)

-----------------------------------------------------------------------------
(* The predicates a filter has by the calls made on it: a setter whose     *)
(* last call passed "" has set none.                                       *)

IsSet(c) == c # <<>> /\ c[1] # ""

AskedOf(d, c, flt, fact) ==
    /\ IsSet(c.ConceptLocal) => fact.name.local = c.ConceptLocal[1]
    /\ IsSet(c.ConceptURI) => fact.name.uri = c.ConceptURI[1]
    /\ IsSet(c.ContextID) => fact.contextRef = c.ContextID[1]
    /\ IsSet(c.UnitID) => fact.unitRef = c.UnitID[1]
    /\ flt.nilFilter # <<>> => fact.nil = flt.nilFilter[1]
    /\ flt.dims # <<>> => fact.contextRef \in MeetingContexts(d, flt.dims)

\* FilterFacts with the filter of the last call keeps the fact when it is
\* the only fact of the document
KeptAlone(fact) ==
    FilterFacts(<<[query.d[1] EXCEPT !.facts = <<fact>>]>>, query.f).facts # <<>>

(* C30: "" passed to ConceptLocal, ConceptURI, ContextID or UnitID, also   *)
(* after a call that passed a value, leaves that predicate unset:          *)
(* FilterFacts keeps the facts that meet the other predicates, so with     *)
(* UnitID("") alone it returns the facts of every unit; and whatever the   *)
(* filter, a fact it keeps without a unit or without a context reference   *)
(* it keeps with one as well, so no filter selects the facts without.      *)
C30_EmptyMeansUnset ==
    (IsFilterCall /\ filters # <<>> /\ query.f = <<filters[1]>>) =>
        LET d == query.d[1]
            c == calls[1]
            flt == query.f[1]
        IN /\ query.out.facts =
                FactsAt(d.facts, {i \in DOMAIN d.facts : AskedOf(d, c, flt, d.facts[i])})
           /\ (c.UnitID = <<"">> /\ [flt EXCEPT !.unitID = ""] = NewFactFilter) =>
                 query.out.facts = d.facts
           /\ \A i \in DOMAIN d.facts :
                 /\ KeptAlone([d.facts[i] EXCEPT !.unitRef = ""]) =>
                       \A u \in {"U1", "U2"} : KeptAlone([d.facts[i] EXCEPT !.unitRef = u])
                 /\ KeptAlone([d.facts[i] EXCEPT !.contextRef = ""]) =>
                       \A id \in {"C1", "CX"} :
                          KeptAlone([d.facts[i] EXCEPT !.contextRef = id])

\* UnitID("") called on a filter that had a unit id, and nothing else set:
\* FilterFacts returns facts with a unit and facts without
C30_Witness ==
    /\ IsFilterCall /\ filters # <<>> /\ query.f = <<filters[1]>>
    /\ calls[1].unitReset /\ filters[1] = NewFactFilter
    /\ query.d[1] = FilterDocument
    /\ \E i, j \in DOMAIN query.out.facts :
          query.out.facts[i].unitRef = "" /\ query.out.facts[j].unitRef = "U1"

-----------------------------------------------------------------------------
(* The namespace stack on its own: a program that pushes start elements,   *)
(* pops, and looks names up.  calls keeps the elements pushed and not yet  *)
(* popped, outermost first.                                                *)

MaxPushes == 3

\* start elements with declarations: a prefix bound, bound again to another
\* namespace, the default namespace, two prefixes for one namespace and an
\* attribute that declares nothing
PushedElements ==
    {St("", "e", <<>>),
     St("", "e", <<At("xmlns", "a", UA)>>),
     St("", "e", <<At("xmlns", "a", UB), At("", "id", UA)>>),
     St("", "e", <<At("", "xmlns", UA), At("xmlns", "b", UB)>>),
     St("", "e", <<At("xmlns", "b", UA), At("xmlns", "b", UC)>>)}

LookupPrefixes == {"", "a", "b", "c"}
LookupURIs == {"", "ua", "ub", "uc"}

Unwalked ==
    UNCHANGED <<input, pos, stack, doc, result, failAt, resolved, filters, load, threads>>

CallPush ==
    /\ Len(nsStack) <= MaxPushes
    /\ \E se \in PushedElements :
          /\ nsStack' = Push(nsStack, se)
          /\ calls' = Append(calls, se)
          /\ query' = [op |-> "Push", before |-> nsStack]
    /\ Unwalked

CallPop ==
    /\ nsStack' = Pop(nsStack)
    /\ calls' = IF calls = <<>> THEN calls ELSE SubSeq(calls, 1, Len(calls) - 1)
    /\ query' = [op |-> "Pop", before |-> nsStack]
    /\ Unwalked

CallURIForPrefix ==
    /\ \E prefix \in LookupPrefixes :
          query' = [op |-> "URIForPrefix", arg |-> prefix,
                    out |-> URIForPrefix(nsStack, prefix)]
    /\ UNCHANGED <<nsStack, calls>>
    /\ Unwalked

CallPrefixForURI ==
    /\ \E uri \in LookupURIs :
          \E prefix \in PrefixesForURI(nsStack, uri) :
             query' = [op |-> "PrefixForURI", arg |-> uri, out |-> prefix]
    /\ UNCHANGED <<nsStack, calls>>
    /\ Unwalked

InitNs ==
    /\ input = <<>>
    /\ pos = 1
    /\ nsStack = newNamespaceStack
    /\ stack = <<>>
    /\ doc = NewDocument
    /\ result = NoResult
    /\ failAt = -1
    /\ resolved = {}
    /\ query = NoQuery
    /\ filters = <<>>
    /\ calls = <<>>
    /\ load = NoLoad
    /\ threads = NoThreads

NextNs == CallPush \/ CallPop \/ CallURIForPrefix \/ CallPrefixForURI

SpecNs == InitNs /\ [][NextNs]_vars

-----------------------------------------------------------------------------
(* The bindings XML scoping gives, read off the open elements alone *)

\* the attribute declares the prefix (the default namespace for "")
DeclaresPrefix(a, prefix) ==
    \/ a.space = "xmlns" /\ a.local = prefix
    \/ prefix = "" /\ a.space = "" /\ a.local = "xmlns"

\* the declarations of the prefix on the open elements, as pairs of the
\* element's depth and the attribute's position
DeclarationsOf(opens, prefix) ==
    UNION {{<<e, a>> : a \in {x \in DOMAIN opens[e].attrs :
                                  DeclaresPrefix(opens[e].attrs[x], prefix)}} :
           e \in DOMAIN opens}

IsInnermost(p, ps) ==
    \A q \in ps : q[1] < p[1] \/ (q[1] = p[1] /\ q[2] <= p[2])

\* the namespace of the prefix in the scope of the open elements: that of
\* its innermost declaration, "" without one
ScopedURI(opens, prefix) ==
    LET ps == DeclarationsOf(opens, prefix) IN
    IF ps = {} THEN ""
    ELSE LET p == CHOOSE x \in ps : IsInnermost(x, ps)
         IN Str(opens[p[1]].attrs[p[2]].value)

FrameURI(frame, prefix) == IF prefix \in DOMAIN frame THEN frame[prefix] ELSE ""

AllPrefixes == LookupPrefixes

\* the frame holds the bindings in scope of the open elements
FrameIs(frame, opens) ==
    /\ DOMAIN frame \subseteq AllPrefixes
    /\ \A prefix \in AllPrefixes : FrameURI(frame, prefix) = ScopedURI(opens, prefix)

(* C24: for the namespace stack alone, after any Push and Pop calls: frame *)
(* k + 1 holds the bindings in scope of the first k open elements, inner   *)
(* declarations shadowing outer ones, the base frame holds none, and the   *)
(* top frame is that of all open elements, so a Push leaves the frames     *)
(* below as they are and a Pop after it brings back the bindings from      *)
(* before it; URIForPrefix and PrefixForURI answer from the top frame.     *)
C24_TopFrameScoping ==
    /\ Len(nsStack) = Len(calls) + 1
    /\ \A k \in 0..Len(calls) : FrameIs(nsStack[k + 1], SubSeq(calls, 1, k))
    /\ query.op = "Push" =>
          /\ SubSeq(nsStack, 1, Len(nsStack) - 1) = query.before
    /\ (query.op = "Pop" /\ Len(query.before) > 1) =>
          nsStack = SubSeq(query.before, 1, Len(query.before) - 1)
    /\ query.op = "URIForPrefix" => query.out = ScopedURI(calls, query.arg)
    /\ query.op = "PrefixForURI" =>
          IF query.arg # "" /\ \E prefix \in AllPrefixes : ScopedURI(calls, prefix) = query.arg
          THEN ScopedURI(calls, query.out) = query.arg
          ELSE query.out = ""

\* a prefix bound on an outer element, bound again on an inner one that has
\* been popped since: the outer binding is back
C24_Witness ==
    /\ query.op = "Pop" /\ Len(query.before) = 3 /\ Len(nsStack) = 2
    /\ FrameURI(query.before[3], "a") = "ub"
    /\ FrameURI(query.before[3], "b") = ""
    /\ URIForPrefix(nsStack, "a") = "ua"
    /\ calls = <<St("", "e", <<At("xmlns", "a", UA)>>)>>

-----------------------------------------------------------------------------
(* What normalised text is *)

IsWhite(c) == c \in {" ", "\t", "\n", "\r", "\f", "NBSP", "IDSP", "EMSP", "NEL"}

\* the characters of s that are not white space, in order
Inked(s) == SelectSeq(s, LAMBDA c : ~IsWhite(c))

\* t is s with every run of white space replaced by one space and none at
\* either end
IsNormalOf(t, s) ==
    /\ Inked(t) = Inked(s)
    /\ \A i \in DOMAIN t : IsWhite(t[i]) =>
          /\ t[i] = " "
          /\ i > 1 /\ i < Len(t) /\ ~IsWhite(t[i - 1]) /\ ~IsWhite(t[i + 1])
    /\ \A i \in DOMAIN t : i > 1 /\ ~IsWhite(t[i]) /\ ~IsWhite(t[i - 1]) =>
          \E j \in DOMAIN s : j > 1 /\ ~IsWhite(s[j]) /\ ~IsWhite(s[j - 1])
                                /\ Len(Inked(SubSeq(s, 1, j))) = Len(Inked(SubSeq(t, 1, i)))

(* C25: space normalisation is idempotent: normalising the normalised text *)
(* gives it again; the normalised text has the characters of the input     *)
(* that are not white space, in order, one ASCII space where the input had  *)
(* a run of white space between two of them (no-break and ideographic      *)
(* space included) and none at either end.                                 *)
C25_NormalizeIdempotent ==
    query.op = "NormalizedValue" =>
        /\ query.again = query.out
        /\ IsNormalOf(query.out, query.in)
        /\ query.absent = <<>>

\* a text with a run of a no-break and an ideographic space
C25_Witness ==
    /\ query.op = "NormalizedValue"
    /\ query.in = <<"a", "NBSP", "IDSP", "b">>
    /\ query.out = <<"a", " ", "b">>
    /\ query.again = query.out

-----------------------------------------------------------------------------
(* Callers of a built Document.  doc is the Document, filters holds the    *)
(* FactFilter the callers pass to FilterFacts, and each thread makes one   *)
(* call at a time.  A collection is a function from its indices or its     *)
(* keys to its entries; a collection the Document holds is named by its    *)
(* field and, inside a Context or a Unit, by the id of its owner.  What an *)
(* accessor hands out is either a collection it made, which the caller     *)
(* owns, or a collection the Document holds, which caller and Document     *)
(* then share.                                                             *)

Threads == {1, 2}

MaxMutations == 1

BuiltDimensions == <<Explicit("M1"), TypedDim>>

BuiltContexts ==
    [id \in {"C1", "C2"} |-> FilterContext(id, IF id = "C1" THEN BuiltDimensions ELSE <<>>)]

BuiltUnits ==
    [id \in {"U1", "U2"} |->
        [id |-> id,
         measures |-> IF id = "U1"
                      THEN <<QName("iso4217", "USD", "uiso"), QName("x", "pure", nsXBRLI)>>
                      ELSE <<>>,
         divide |-> id = "U2",
         numerator |-> IF id = "U2"
                       THEN <<QName("iso4217", "USD", "uiso"), QName("iso4217", "JPY", "uiso")>>
                       ELSE <<>>,
         denominator |-> IF id = "U2"
                         THEN <<QName("x", "shares", nsXBRLI), QName("x", "pure", nsXBRLI)>>
                         ELSE <<>>]]

BuiltTaxonomy ==
    [concepts |-> [q \in {QName("t", l, "ua") : l \in {"Int", "Bool"}} |->
                     TypedConcept(q.local)],
     made |-> TRUE]

BuiltFacts ==
    <<FilterFact(QName("t", "Int", "ua"), "C1", "U1", "f1", FALSE),
      [FilterFact(QName("t", "Bool", "ua"), "C2", "", "f2", FALSE)
         EXCEPT !.value = <<"t", "r", "u", "e">>],
      FilterFact(QName("a", "Int", "ua"), "CX", "U2", "f3", TRUE)>>

BuiltDocument ==
    [schemaRefs |-> <<NewSchemaRef("a.xsd"), NewSchemaRef("b.xsd")>>,
     contexts |-> BuiltContexts, units |-> BuiltUnits, facts |-> BuiltFacts,
     taxonomy |-> <<BuiltTaxonomy>>]

\* the filters the callers hold: one that asks for the namespace ua and the
\* context C2, and one that asks for nothing
BuiltFilters ==
    <<[NewFactFilter EXCEPT !.conceptURI = "ua", !.contextID = "C2"], NewFactFilter>>

\* the collection of d that p names
Field(d, p) ==
    CASE p[1] = "schemaRefs" -> d.schemaRefs
      [] p[1] = "contexts" -> d.contexts
      [] p[1] = "units" -> d.units
      [] p[1] = "facts" -> d.facts
      [] p[1] = "concepts" -> d.taxonomy[1].concepts
      [] p[1] = "dimensions" -> d.contexts[p[2]].dimensions
      [] p[1] = "measures" -> d.units[p[2]].measures
      [] p[1] = "numerator" -> d.units[p[2]].numerator
      [] p[1] = "denominator" -> d.units[p[2]].denominator

\* d with c in the place of the collection that p names
SetField(d, p, c) ==
    CASE p[1] = "schemaRefs" -> [d EXCEPT !.schemaRefs = c]
      [] p[1] = "contexts" -> [d EXCEPT !.contexts = c]
      [] p[1] = "units" -> [d EXCEPT !.units = c]
      [] p[1] = "facts" -> [d EXCEPT !.facts = c]
      [] p[1] = "concepts" -> [d EXCEPT !.taxonomy[1].concepts = c]
      [] p[1] = "dimensions" -> [d EXCEPT !.contexts[p[2]].dimensions = c]
      [] p[1] = "measures" -> [d EXCEPT !.units[p[2]].measures = c]
      [] p[1] = "numerator" -> [d EXCEPT !.units[p[2]].numerator = c]
      [] p[1] = "denominator" -> [d EXCEPT !.units[p[2]].denominator = c]

\* a Go map, where the others are slices
IsMap(p) == p[1] \in {"contexts", "units", "concepts"}

\* what a collection accessor does: return nil, make a collection and copy
\* the one at src into it, or return the one at src itself
ReturnNil == [make |-> FALSE, src |-> <<>>]
MakeAndCopy(p) == [make |-> TRUE, src |-> p]
ReturnHeld(p) == [make |-> FALSE, src |-> p]

\* (d *Document) SchemaRefs, Contexts, Units: d is <<>> for nil
SchemaRefs(d) == IF d = <<>> THEN ReturnNil ELSE MakeAndCopy(<<"schemaRefs">>)

Contexts(d) == IF d = <<>> THEN ReturnNil ELSE MakeAndCopy(<<"contexts">>)

Units(d) == IF d = <<>> THEN ReturnNil ELSE MakeAndCopy(<<"units">>)

\* a Facts that returns d.facts
DocumentFactsHeld(d) == IF d = <<>> THEN ReturnNil ELSE ReturnHeld(<<"facts">>)

\* (d *Document) Facts
DocumentFacts(d) == IF d = <<>> THEN ReturnNil ELSE MakeAndCopy(<<"facts">>)

\* (c *Context) Dimensions: c is <<>> for nil
Dimensions(c) == IF c = <<>> THEN ReturnNil ELSE MakeAndCopy(<<"dimensions", c[1].id>>)

\* (u *Unit) Measures, NumeratorMeasures, DenominatorMeasures
Measures(u) == IF u = <<>> THEN ReturnNil ELSE MakeAndCopy(<<"measures", u[1].id>>)

NumeratorMeasures(u) == IF u = <<>> THEN ReturnNil ELSE MakeAndCopy(<<"numerator", u[1].id>>)

DenominatorMeasures(u) ==
    IF u = <<>> THEN ReturnNil ELSE MakeAndCopy(<<"denominator", u[1].id>>)

\* (t *Taxonomy) Concepts
Concepts(t) == IF t = <<>> THEN ReturnNil ELSE MakeAndCopy(<<"concepts">>)

\* the getters of *Fact, *Context, *Unit and *Concept, named by the field
\* they return, with the value each returns on a nil receiver
FactGetters ==
    [kind |-> "unknown", name |-> QName("", "", ""), value |-> <<>>, contextRef |-> "",
     unitRef |-> "", decimals |-> "", precision |-> "", id |-> "", lang |-> "",
     nil |-> FALSE]

ContextGetters == [id |-> "", entity |-> EmptyEntity, period |-> EmptyPeriod]

UnitGetters == [id |-> "", divide |-> FALSE]

ConceptGetters ==
    [qname |-> QName("", "", ""), id |-> "", substitutionGroup |-> QName("", "", ""),
     typeName |-> QName("", "", ""), abstract |-> FALSE, nillable |-> FALSE,
     periodType |-> "", balance |-> ""]

\* (f *Fact) Kind, Name, Value, ContextRef, UnitRef, Decimals, Precision, ID,
\* Lang, IsNil
FactGet(f, g) == IF f = <<>> THEN FactGetters[g] ELSE f[1][g]

\* (c *Context) ID, Entity, Period
ContextGet(c, g) == IF c = <<>> THEN ContextGetters[g] ELSE c[1][g]

\* (u *Unit) ID, IsDivide
UnitGet(u, g) == IF u = <<>> THEN UnitGetters[g] ELSE u[1][g]

\* (c *Concept) QName, ID, SubstitutionGroup, Type, Abstract, Nillable,
\* PeriodType, Balance
ConceptGet(c, g) == IF c = <<>> THEN ConceptGetters[g] ELSE c[1][g]

\* (c *Concept) IsItem and IsTuple
IsItem(c) ==
    IF c = <<>> THEN FALSE
    ELSE LET sg == ConceptGet(c, "substitutionGroup")
         IN sg.uri = nsXBRLI /\ sg.local = "item"

IsTuple(c) ==
    IF c = <<>> THEN FALSE
    ELSE LET sg == ConceptGet(c, "substitutionGroup")
         IN sg.uri = nsXBRLI /\ sg.local = "tuple"

\* (c *Context) DimensionByQName: the first dimension with the uri and the
\* local name of dim
DimensionByQName(c, dim) ==
    IF c = <<>> THEN [c |-> NewDimension(QName("", "", ""), FALSE, QName("", "", ""), ""),
                      ok |-> FALSE]
    ELSE LET at == {i \in DOMAIN c[1].dimensions :
                       /\ c[1].dimensions[i].dimension.uri = dim.uri
                       /\ c[1].dimensions[i].dimension.local = dim.local}
         IN IF at = {}
            THEN [c |-> NewDimension(QName("", "", ""), FALSE, QName("", "", ""), ""),
                  ok |-> FALSE]
            ELSE [c |-> c[1].dimensions[CHOOSE i \in at : \A j \in at : i <= j],
                  ok |-> TRUE]

Found(x) == [c |-> <<x>>, ok |-> TRUE]

\* (d *Document) ContextByID, UnitByID, ContextOf, UnitOf
ContextByID(d, id) ==
    IF d = <<>> THEN NotFound
    ELSE IF id \in DOMAIN d[1].contexts THEN Found(d[1].contexts[id]) ELSE NotFound

UnitByID(d, id) ==
    IF d = <<>> THEN NotFound
    ELSE IF id \in DOMAIN d[1].units THEN Found(d[1].units[id]) ELSE NotFound

ContextOf(d, f) ==
    IF d = <<>> \/ f = <<>> THEN NotFound ELSE ContextByID(d, FactGet(f, "contextRef"))

UnitOf(d, f) ==
    IF d = <<>> \/ f = <<>> THEN NotFound ELSE UnitByID(d, FactGet(f, "unitRef"))

\* (d *Document) Taxonomy and SetTaxonomy; t is <<>> for nil
Taxonomy(d) == IF d = <<>> THEN <<>> ELSE d[1].taxonomy

SetTaxonomy(d, t) == IF d = <<>> THEN d ELSE <<[d[1] EXCEPT !.taxonomy = t]>>

\* the receivers the callers hold: "nil", "doc" for the Document, "tax" for
\* its Taxonomy, the id of a Context, a Unit or a Fact and the local name of
\* a Concept.  A pointer outlives the entry it was read from, so a receiver
\* missing from d is the one the Document was built with.
Receiver(d, type, r) ==
    IF r = "nil" THEN <<>>
    ELSE CASE type = "Document" -> <<d>>
           [] type = "Taxonomy" -> d.taxonomy
           [] type = "Context" ->
                IF r \in DOMAIN d.contexts THEN <<d.contexts[r]>> ELSE <<BuiltContexts[r]>>
           [] type = "Unit" ->
                IF r \in DOMAIN d.units THEN <<d.units[r]>> ELSE <<BuiltUnits[r]>>
           [] type = "Fact" ->
                LET at == {i \in DOMAIN d.facts : d.facts[i].id = r}
                    was == CHOOSE i \in DOMAIN BuiltFacts : BuiltFacts[i].id = r
                IN IF at = {} THEN <<BuiltFacts[was]>> ELSE <<d.facts[CHOOSE i \in at : TRUE]>>
           [] type = "Concept" ->
                LET q == QName("t", r, "ua")
                IN IF q \in DOMAIN d.taxonomy[1].concepts
                   THEN <<d.taxonomy[1].concepts[q]>>
                   ELSE <<BuiltTaxonomy.concepts[q]>>

\* the calls of the collection accessors
Collectors ==
    {[op |-> op, recv |-> r] :
        op \in {"SchemaRefs", "Contexts", "Units", "Facts"}, r \in {"nil", "doc"}}
    \cup {[op |-> "Dimensions", recv |-> r] : r \in {"nil", "C1", "C2"}}
    \cup {[op |-> op, recv |-> r] :
            op \in {"Measures", "NumeratorMeasures", "DenominatorMeasures"},
            r \in {"nil", "U1", "U2"}}
    \cup {[op |-> "Concepts", recv |-> r] : r \in {"nil", "tax"}}

Collect(d, c) ==
    CASE c.op = "SchemaRefs" -> SchemaRefs(Receiver(d, "Document", c.recv))
      [] c.op = "Contexts" -> Contexts(Receiver(d, "Document", c.recv))
      [] c.op = "Units" -> Units(Receiver(d, "Document", c.recv))
      [] c.op = "Facts" -> DocumentFacts(Receiver(d, "Document", c.recv))
      [] c.op = "Dimensions" -> Dimensions(Receiver(d, "Context", c.recv))
      [] c.op = "Measures" -> Measures(Receiver(d, "Unit", c.recv))
      [] c.op = "NumeratorMeasures" -> NumeratorMeasures(Receiver(d, "Unit", c.recv))
      [] c.op = "DenominatorMeasures" -> DenominatorMeasures(Receiver(d, "Unit", c.recv))
      [] c.op = "Concepts" -> Concepts(Receiver(d, "Taxonomy", c.recv))

\* what a caller holds once a collection was returned to it: nil, a
\* collection of its own, or the collection the Document holds at held
NilCollection == [absent |-> TRUE, held |-> <<>>, entries |-> <<>>]
Own(c) == [absent |-> FALSE, held |-> <<>>, entries |-> c]
Shared(p) == [absent |-> FALSE, held |-> p, entries |-> <<>>]

\* the entries of a returned collection
Entries(d, ret) == IF ret.held = <<>> THEN ret.entries ELSE Field(d, ret.held)

\* an entry a caller can put into a collection of the kind of kind
Spare(kind) ==
    CASE kind = "schemaRefs" -> NewSchemaRef("z.xsd")
      [] kind = "contexts" -> FilterContext("Z", <<>>)
      [] kind = "units" -> [BuiltUnits["U1"] EXCEPT !.id = "Z"]
      [] kind = "facts" -> FilterFact(QName("z", "Z", "uz"), "C1", "U1", "z", FALSE)
      [] kind = "concepts" -> TypedConcept("Text")
      [] kind = "dimensions" -> Explicit("M2")
      [] kind \in {"measures", "numerator", "denominator"} -> QName("z", "Z", "uz")

SpareKey(kind) == IF kind = "concepts" THEN QName("t", "Text", "ua") ELSE "Z"

\* what a caller does to a collection: c[at] = spare, the removal of the
\* entry at at, and the addition of spare
Mutations(c) ==
    {[kind |-> k, at |-> a] : k \in {"replace", "delete"}, a \in DOMAIN c}
    \cup {[kind |-> "insert", at |-> <<>>]}

Remove(c, a) == [i \in 1..(Len(c) - 1) |-> IF i < a THEN c[i] ELSE c[i + 1]]

\* the collection after the mutation
Apply(c, m, kind) ==
    CASE m.kind = "replace" -> [c EXCEPT ![m.at] = Spare(kind)]
      [] m.kind = "delete" ->
            IF IsMap(<<kind>>) THEN [k \in DOMAIN c \ {m.at} |-> c[k]] ELSE Remove(c, m.at)
      [] m.kind = "insert" ->
            IF IsMap(<<kind>>) THEN MapPut(c, SpareKey(kind), Spare(kind))
            ELSE Append(c, Spare(kind))

\* what the other holder of c has after the mutation.  A Go map is one
\* object.  A slice shares its array: append(s[:at], s[at+1:]...) moves the
\* entries after at one place down and leaves the last where it was, and an
\* append to a full slice writes to a new array.
Through(c, m, kind) ==
    IF IsMap(<<kind>>) \/ m.kind = "replace" THEN Apply(c, m, kind)
    ELSE IF m.kind = "delete" THEN Append(Remove(c, m.at), c[Len(c)])
    ELSE c

\* the calls that return at once: the getters, the lookups, the typed
\* conversions and the JSON export.  An argument is the name of a getter,
\* an id, a local name, or the receiver name of a Fact.
Reads ==
    {[op |-> "FactGet", recv |-> r, arg |-> g] :
        r \in {"nil", "f1"}, g \in DOMAIN FactGetters}
    \cup {[op |-> "ContextGet", recv |-> r, arg |-> g] :
            r \in {"nil", "C1"}, g \in DOMAIN ContextGetters}
    \cup {[op |-> "UnitGet", recv |-> r, arg |-> g] :
            r \in {"nil", "U2"}, g \in DOMAIN UnitGetters}
    \cup {[op |-> "ConceptGet", recv |-> r, arg |-> g] :
            r \in {"nil", "Int"}, g \in DOMAIN ConceptGetters}
    \cup {[op |-> op, recv |-> r, arg |-> ""] :
            op \in {"IsItem", "IsTuple", "ValueKind"}, r \in {"nil", "Int"}}
    \cup {[op |-> "NormalizedValue", recv |-> r, arg |-> ""] : r \in {"nil", "f2"}}
    \cup {[op |-> "DimensionByQName", recv |-> r, arg |-> a] :
            r \in {"nil", "C1"}, a \in {"Dim", "Nope"}}
    \cup {[op |-> "Concept", recv |-> r, arg |-> a] :
            r \in {"nil", "tax"}, a \in {"Int", "Nope"}}
    \cup {[op |-> "ContextByID", recv |-> r, arg |-> a] :
            r \in {"nil", "doc"}, a \in {"C1", "CX"}}
    \cup {[op |-> "UnitByID", recv |-> r, arg |-> a] :
            r \in {"nil", "doc"}, a \in {"U1", "UX"}}
    \cup {[op |-> op, recv |-> r, arg |-> a] :
            op \in {"ContextOf", "UnitOf", "ConceptOf", "AsInt64", "AsFloat64", "AsBool",
                    "AsTime"},
            r \in {"nil", "doc"}, a \in {"nil", "f1", "f2", "f3"}}
    \cup {[op |-> op, recv |-> r, arg |-> ""] :
            op \in {"Taxonomy", "FactsAsJSONDTOs"}, r \in {"nil", "doc"}}
    \cup {[op |-> "EncodeFactsJSON", recv |-> r, arg |-> a] :
            r \in {"nil", "doc"}, a \in {"pretty", "plain"}}

\* what the call c returns on the Document d
Answer(d, c) ==
    LET document == Receiver(d, "Document", c.recv)
        fact == Receiver(d, "Fact", c.arg)
    IN CASE c.op = "FactGet" -> FactGet(Receiver(d, "Fact", c.recv), c.arg)
         [] c.op = "ContextGet" -> ContextGet(Receiver(d, "Context", c.recv), c.arg)
         [] c.op = "UnitGet" -> UnitGet(Receiver(d, "Unit", c.recv), c.arg)
         [] c.op = "ConceptGet" -> ConceptGet(Receiver(d, "Concept", c.recv), c.arg)
         [] c.op = "IsItem" -> IsItem(Receiver(d, "Concept", c.recv))
         [] c.op = "IsTuple" -> IsTuple(Receiver(d, "Concept", c.recv))
         [] c.op = "ValueKind" -> ValueKind(Receiver(d, "Concept", c.recv))
         [] c.op = "NormalizedValue" -> NormalizedValue(Receiver(d, "Fact", c.recv))
         [] c.op = "DimensionByQName" ->
               DimensionByQName(Receiver(d, "Context", c.recv), QName("x", c.arg, "ud"))
         [] c.op = "Concept" ->
               Concept(Receiver(d, "Taxonomy", c.recv), QName("t", c.arg, "ua"))
         [] c.op = "ContextByID" -> ContextByID(document, c.arg)
         [] c.op = "UnitByID" -> UnitByID(document, c.arg)
         [] c.op = "ContextOf" -> ContextOf(document, fact)
         [] c.op = "UnitOf" -> UnitOf(document, fact)
         [] c.op = "ConceptOf" -> ConceptOf(document, fact)
         [] c.op = "AsInt64" -> AsInt64(document, fact)
         [] c.op = "AsFloat64" -> AsFloat64(document, fact)
         [] c.op = "AsBool" -> AsBool(document, fact)
         [] c.op = "AsTime" -> AsTime(document, fact)
         [] c.op = "Taxonomy" -> Taxonomy(document)
         [] c.op = "FactsAsJSONDTOs" -> FactsAsJSONDTOs(document)
         [] c.op = "EncodeFactsJSON" -> EncodeFactsJSON(document, c.arg = "pretty")

\* the calls of FilterFacts: the argument names the filter, and FilterAt
\* gives its address in filters
Filterings ==
    {[op |-> "FilterFacts", recv |-> r, arg |-> a] :
        r \in {"nil", "doc"}, a \in {"nil", "F1", "F2"}}

FilterAt(a) == CASE a = "nil" -> 0 [] a = "F1" -> 1 [] a = "F2" -> 2

\* the builder calls on the nil *FactFilter
NilBuilds ==
    {[op |-> op, recv |-> "nil", arg |-> a] :
        op \in {"ConceptURI", "ConceptLocal", "ContextID", "UnitID"}, a \in {"", "x"}}
    \cup {[op |-> op, recv |-> "nil", arg |-> ""] : op \in {"OnlyNil", "ExcludeNil"}}
    \cup {[op |-> "Dimension", recv |-> "nil", arg |-> a] : a \in {"Dim"}}

Build(h, f, c) ==
    CASE c.op = "ConceptURI" -> ConceptURI(h, f, c.arg)
      [] c.op = "ConceptLocal" -> ConceptLocal(h, f, c.arg)
      [] c.op = "ContextID" -> ContextID(h, f, c.arg)
      [] c.op = "UnitID" -> UnitID(h, f, c.arg)
      [] c.op = "OnlyNil" -> OnlyNil(h, f)
      [] c.op = "ExcludeNil" -> ExcludeNil(h, f)
      [] c.op = "Dimension" -> Dimension(h, f, QName("x", c.arg, "ud"), QName("x", "M1", "um"))

Idle == [pc |-> "idle"]

\* a call that returned a collection, with after for a call made after some
\* caller had changed a collection; one that returned something else; and a
\* returned collection after muts changes by its caller
Done(c, ret, after) == [pc |-> "done", call |-> c, ret |-> ret, muts |-> 0, after |-> after]
Answered(c, ret) == [pc |-> "done", call |-> c, ret |-> ret, muts |-> 0]
Changed(c, ret, muts) == [pc |-> "done", call |-> c, ret |-> ret, muts |-> muts]

\* some caller has changed a collection that was returned to it
Mutated == \E u \in Threads : threads[u].pc = "done" /\ threads[u].muts > 0

Unread == UNCHANGED <<input, pos, nsStack, stack, result, failAt, resolved, query, calls, load>>

\* a caller calls a collection accessor: it returns at once, or it makes a
\* collection and starts to copy
CallCollect ==
    /\ \E t \in Threads, c \in Collectors :
          /\ threads[t] = Idle
          /\ LET plan == Collect(doc, c) IN
             threads' =
               [threads EXCEPT ![t] =
                  IF plan.make
                  THEN [pc |-> "copy", call |-> c, src |-> plan.src,
                        n |-> IF IsMap(plan.src) THEN 0 ELSE Len(Field(doc, plan.src)),
                        out |-> <<>>, after |-> Mutated]
                  ELSE IF plan.src = <<>> THEN Done(c, NilCollection, Mutated)
                  ELSE Done(c, Shared(plan.src), Mutated)]
    /\ UNCHANGED <<doc, filters>>
    /\ Unread

\* the keys the copy has still to visit
ToCopy(d, th) ==
    IF IsMap(th.src) THEN DOMAIN Field(d, th.src) \ DOMAIN th.out
    ELSE {k \in {Len(th.out) + 1} : k <= th.n}

\* copy, maps.Copy and the range loop of Concepts: one entry
CopyEntry ==
    /\ \E t \in Threads :
          /\ threads[t].pc = "copy"
          /\ \E k \in ToCopy(doc, threads[t]) :
                LET from == Field(doc, threads[t].src)
                    entry == IF k \in DOMAIN from THEN from[k] ELSE Spare(threads[t].src[1])
                IN threads' = [threads EXCEPT ![t].out =
                                 IF IsMap(threads[t].src) THEN MapPut(@, k, entry)
                                 ELSE Append(@, entry)]
    /\ UNCHANGED <<doc, filters>>
    /\ Unread

ReturnCopy ==
    /\ \E t \in Threads :
          /\ threads[t].pc = "copy"
          /\ ToCopy(doc, threads[t]) = {}
          /\ threads' = [threads EXCEPT ![t] =
                           Done(threads[t].call, Own(threads[t].out), threads[t].after)]
    /\ UNCHANGED <<doc, filters>>
    /\ Unread

\* a call that returns at once
CallRead ==
    /\ \E t \in Threads, c \in Reads :
          /\ threads[t] = Idle
          /\ threads' = [threads EXCEPT ![t] = Answered(c, Answer(doc, c))]
    /\ UNCHANGED <<doc, filters>>
    /\ Unread

\* FilterFacts: the nil checks, and the start of the loop over d.facts
CallFilter ==
    /\ \E t \in Threads, c \in Filterings :
          /\ threads[t] = Idle
          /\ LET d == Receiver(doc, "Document", c.recv)
                 f == Deref(filters, FilterAt(c.arg))
             IN threads' =
                  [threads EXCEPT ![t] =
                     IF d = <<>> \/ f = <<>> THEN Done(c, NilCollection, Mutated)
                     ELSE [pc |-> "filter", call |-> c, i |-> 1, n |-> Len(d[1].facts),
                           result |-> <<>>, after |-> Mutated]]
    /\ UNCHANGED <<doc, filters>>
    /\ Unread

\* the fact the loop is at
FilterFactAt(d, th) == IF th.i \in DOMAIN d.facts THEN d.facts[th.i] ELSE Spare("facts")

\* a loop body that appends to d.facts[:0]
FilterEntryInPlace ==
    /\ \E t \in Threads :
          /\ threads[t].pc = "filter" /\ threads[t].i <= threads[t].n
          /\ LET th == threads[t]
                 fact == FilterFactAt(doc, th)
                 kept == Keeps(doc, filters[FilterAt(th.call.arg)], fact)
             IN /\ threads' = [threads EXCEPT
                                 ![t].i = @ + 1,
                                 ![t].result = IF kept THEN Append(@, fact) ELSE @]
                /\ doc' = IF kept THEN [doc EXCEPT !.facts[Len(th.result) + 1] = fact]
                          ELSE doc
    /\ UNCHANGED filters
    /\ Unread

\* the loop body: result = append(result, fact) for a fact the filter keeps
FilterEntry ==
    /\ \E t \in Threads :
          /\ threads[t].pc = "filter" /\ threads[t].i <= threads[t].n
          /\ LET th == threads[t]
                 fact == FilterFactAt(doc, th)
                 kept == Keeps(doc, filters[FilterAt(th.call.arg)], fact)
             IN /\ threads' = [threads EXCEPT
                                 ![t].i = @ + 1,
                                 ![t].result = IF kept THEN Append(@, fact) ELSE @]
                /\ doc' = doc
    /\ UNCHANGED filters
    /\ Unread

\* out := make([]*Fact, len(result)); copy(out, result); return out
ReturnFiltered ==
    /\ \E t \in Threads :
          /\ threads[t].pc = "filter" /\ threads[t].i > threads[t].n
          /\ threads' = [threads EXCEPT ![t] =
                           Done(threads[t].call, Own(threads[t].result), threads[t].after)]
    /\ UNCHANGED <<doc, filters>>
    /\ Unread

\* a builder call on the nil *FactFilter, or on the pointer the builder
\* call before it returned
CallBuild ==
    /\ \E t \in Threads, c \in NilBuilds :
          /\ threads[t] = Idle \/ (threads[t].pc = "done" /\ threads[t].call \in NilBuilds)
          /\ LET f == IF threads[t] = Idle THEN 0 ELSE threads[t].ret
                 r == Build(filters, f, c)
             IN /\ filters' = r.heap
                /\ threads' = [threads EXCEPT ![t] =
                                 [pc |-> "done", call |-> c, ret |-> r.ret, muts |-> 0,
                                  chained |-> threads[t] # Idle]]
    /\ UNCHANGED doc
    /\ Unread

\* SetTaxonomy on the nil *Document
CallSetTaxonomy ==
    /\ \E t \in Threads, a \in {"nil", "tax"} :
          /\ threads[t] = Idle
          /\ LET d == SetTaxonomy(Receiver(doc, "Document", "nil"),
                                  Receiver(doc, "Taxonomy", a))
             IN /\ doc' = IF d = <<>> THEN doc ELSE d[1]
                /\ threads' = [threads EXCEPT ![t] =
                                 Answered([op |-> "SetTaxonomy", recv |-> "nil",
                                           arg |-> a], d)]
    /\ UNCHANGED filters
    /\ Unread

\* the kind of collection a call returns
Holds(op) ==
    CASE op = "SchemaRefs" -> "schemaRefs"
      [] op = "Contexts" -> "contexts"
      [] op = "Units" -> "units"
      [] op \in {"Facts", "FilterFacts"} -> "facts"
      [] op = "Dimensions" -> "dimensions"
      [] op = "Measures" -> "measures"
      [] op = "NumeratorMeasures" -> "numerator"
      [] op = "DenominatorMeasures" -> "denominator"
      [] op = "Concepts" -> "concepts"

\* a caller replaces, deletes or inserts an entry of the collection that
\* was returned to it
Mutate ==
    /\ \E t \in Threads :
          /\ threads[t].pc = "done"
          /\ threads[t].call \in Collectors \cup Filterings
          /\ ~threads[t].ret.absent
          /\ threads[t].muts < MaxMutations
          /\ LET ret == threads[t].ret
                 kind == Holds(threads[t].call.op)
                 c == Entries(doc, ret)
             IN \E m \in Mutations(c) :
                   IF ret.held = <<>>
                   THEN /\ threads' = [threads EXCEPT ![t] =
                                         Changed(threads[t].call, Own(Apply(c, m, kind)),
                                                 threads[t].muts + 1)]
                        /\ doc' = doc
                   ELSE /\ threads' = [threads EXCEPT ![t] =
                                         Changed(threads[t].call,
                                                 IF ~IsMap(<<kind>>) /\ m.kind = "insert"
                                                 THEN Own(Apply(c, m, kind)) ELSE ret,
                                                 threads[t].muts + 1)]
                        /\ doc' = SetField(doc, ret.held, Through(c, m, kind))
    /\ UNCHANGED filters
    /\ Unread

\* the caller is done with what the call returned
Release ==
    /\ \E t \in Threads :
          /\ threads[t].pc = "done"
          /\ threads' = [threads EXCEPT ![t] = Idle]
    /\ UNCHANGED <<doc, filters>>
    /\ Unread

InitRead ==
    /\ input = <<>>
    /\ pos = 1
    /\ nsStack = newNamespaceStack
    /\ stack = <<>>
    /\ doc = BuiltDocument
    /\ result = NoResult
    /\ failAt = -1
    /\ resolved = {}
    /\ query = NoQuery
    /\ filters = BuiltFilters
    /\ calls = <<>>
    /\ load = NoLoad
    /\ threads = [t \in Threads |-> Idle]

NextRead ==
    \/ CallCollect \/ CopyEntry \/ ReturnCopy
    \/ CallRead
    \/ CallFilter \/ FilterEntry \/ ReturnFiltered
    \/ CallBuild \/ CallSetTaxonomy
    \/ Mutate \/ Release

SpecRead == InitRead /\ [][NextRead]_vars

ReadTypeOK == doc = BuiltDocument

-----------------------------------------------------------------------------
(* What a call on an absent receiver gives, by the type of its result *)

\* the type of what a call returns, from the signature of its method
ResultOf(c) ==
    CASE c.op = "FactGet" ->
            (CASE c.arg = "nil" -> "bool" [] c.arg = "name" -> "QName"
               [] c.arg = "kind" -> "kind" [] c.arg = "value" -> "text"
               [] OTHER -> "string")
      [] c.op = "ContextGet" ->
            (CASE c.arg = "entity" -> "Entity" [] c.arg = "period" -> "Period"
               [] OTHER -> "string")
      [] c.op = "UnitGet" -> IF c.arg = "divide" THEN "bool" ELSE "string"
      [] c.op = "ConceptGet" ->
            (CASE c.arg \in {"qname", "substitutionGroup", "typeName"} -> "QName"
               [] c.arg \in {"abstract", "nillable"} -> "bool"
               [] OTHER -> "string")
      [] c.op \in {"IsItem", "IsTuple"} -> "bool"
      [] c.op = "ValueKind" -> "kind"
      [] c.op = "NormalizedValue" -> "text"
      [] c.op = "DimensionByQName" -> "Dimension, bool"
      [] c.op \in {"Concept", "ContextByID", "UnitByID", "ContextOf", "UnitOf",
                   "ConceptOf"} -> "pointer, bool"
      [] c.op \in {"Taxonomy", "FactsAsJSONDTOs", "EncodeFactsJSON"} -> "pointer"
      [] OTHER -> "value, error"

IsEmptyQName(q) == q.prefix = "" /\ q.local = "" /\ q.uri = ""

\* v is the neutral default of the type: the empty string, false, the
\* unknown kind, no pointer, not found, and a structure of those
IsNeutral(type, v) ==
    CASE type = "string" -> v = ""
      [] type = "text" -> Len(v) = 0
      [] type = "bool" -> v = FALSE
      [] type = "kind" -> v = "unknown"
      [] type = "QName" -> IsEmptyQName(v)
      [] type = "Entity" -> v.identifier.scheme = "" /\ v.identifier.value = ""
      [] type = "Period" ->
            v.instant = <<>> /\ v.startDate = <<>> /\ v.endDate = <<>> /\ ~v.forever
      [] type = "pointer" -> v = <<>>
      [] type = "pointer, bool" -> v.c = <<>> /\ ~v.ok
      [] type = "Dimension, bool" ->
            /\ ~v.ok /\ ~v.c.explicit /\ v.c.typedValue = ""
            /\ IsEmptyQName(v.c.dimension) /\ IsEmptyQName(v.c.member)

\* the receiver of the call, or the Fact handed to it, is absent
OnAbsent(c) ==
    \/ c.recv = "nil"
    \/ c.op \in {"ContextOf", "UnitOf", "ConceptOf"} /\ c.arg = "nil"
    \/ c.op = "FilterFacts" /\ c.arg = "nil"

-----------------------------------------------------------------------------
(* What the calls give on the Document as it was built *)

\* the entries a collection call gives when nothing else runs: those the
\* built Document holds in the field the method is named after, and the
\* facts of the built Document that the filter keeps
Expected(c) ==
    IF c.recv = "nil" THEN <<>>
    ELSE CASE c.op = "SchemaRefs" -> BuiltDocument.schemaRefs
           [] c.op = "Contexts" -> BuiltContexts
           [] c.op = "Units" -> BuiltUnits
           [] c.op = "Facts" -> BuiltFacts
           [] c.op = "Dimensions" -> BuiltContexts[c.recv].dimensions
           [] c.op = "Measures" -> BuiltUnits[c.recv].measures
           [] c.op = "NumeratorMeasures" -> BuiltUnits[c.recv].numerator
           [] c.op = "DenominatorMeasures" -> BuiltUnits[c.recv].denominator
           [] c.op = "Concepts" -> BuiltTaxonomy.concepts
           [] c.op = "FilterFacts" ->
                FilterFacts(<<BuiltDocument>>, Deref(BuiltFilters, FilterAt(c.arg))).facts

ReturnsCollection(th) == th.pc = "done" /\ th.call \in Collectors \cup Filterings

\* C21: the collection accessors and FilterFacts return a collection of
\* their own.  No returned collection is one the Document holds; once a
\* caller has replaced, deleted or inserted an entry of a collection returned
\* to it, the Document is as it was built, and every call made after that
\* returns the entries the same call gives on the Document as built.
C21_ReturnsIndependentCopy ==
    /\ Mutated => doc = BuiltDocument
    /\ \A t \in Threads :
          ReturnsCollection(threads[t]) =>
             /\ threads[t].ret.held = <<>>
             /\ threads[t].muts = 0 /\ threads[t].after =>
                   Entries(doc, threads[t].ret) = Expected(threads[t].call)

\* the first caller has changed the facts FilterFacts returned to it, and
\* the second has then asked for the facts and for the same filtering and
\* holds, in turn, the unchanged facts
C21_Witness ==
    /\ ReturnsCollection(threads[1]) /\ threads[1].call.op = "FilterFacts"
    /\ threads[1].call.arg = "F2"
    /\ threads[1].muts > 0
    /\ threads[1].ret.entries # BuiltFacts
    /\ ReturnsCollection(threads[2]) /\ threads[2].call.op = "Facts"
    /\ threads[2].muts = 0 /\ threads[2].after
    /\ threads[2].ret.entries = BuiltFacts

\* C22: reads of a built Document do not disturb each other.  With two
\* callers whose accessor calls, lookups, filterings, conversions and
\* exports interleave step by step, the Document, its contexts, units,
\* facts and Taxonomy and the filters passed in stay as they were built, and
\* every call that has returned holds what the same call gives on the built
\* Document when it runs alone.
C22_ReadsDoNotInterfere ==
    /\ doc = BuiltDocument
    /\ filters = BuiltFilters
    /\ \A t \in Threads :
          threads[t].pc = "done" /\ threads[t].muts = 0 =>
             /\ threads[t].call \in Reads =>
                   threads[t].ret = Answer(BuiltDocument, threads[t].call)
             /\ threads[t].call \in Collectors \cup Filterings =>
                   /\ threads[t].ret.absent = OnAbsent(threads[t].call)
                   /\ Entries(doc, threads[t].ret) = Expected(threads[t].call)

\* FilterFacts has returned to the second caller the one fact its filter
\* keeps while the first caller is half way through copying the facts
C22_Witness ==
    /\ threads[1].pc = "copy" /\ threads[1].call.op = "Facts"
    /\ Len(threads[1].out) = 1
    /\ threads[2].pc = "done" /\ threads[2].call.op = "FilterFacts"
    /\ threads[2].call.arg = "F1" /\ threads[2].muts = 0
    /\ threads[2].ret.entries = <<BuiltFacts[2]>>

====
